---------------------------- MODULE Spec2Model ----------------------------
(***************************************************************************)
(* Arcade-cabinet template generators (Resources/create_*_template.py).    *)
(*                                                                         *)
(* Four scripts build a cabinet variant in the host's current scene and    *)
(* export it.  The model keeps the host scene (objects with name, parent,  *)
(* selection flag, pending local transform and mesh, plus the active       *)
(* object), the position of the running script, and the meshes the         *)
(* builders write vertex by vertex.                                        *)
(*                                                                         *)
(* Lengths are integers in units of 0.1 mm (1 m = 10000).  Scale factors   *)
(* use the same fixed point (1.0 = 10000).  An angle is a pair             *)
(* <<k, m>> standing for k*pi/6 + m/1000 rad.                              *)
(***************************************************************************)
EXTENDS Integers, Sequences, FiniteSets, TLC

VARIABLES
    objects,      \* host scene: object id -> object record
    active,       \* bpy.context.active_object (0: none)
    next_id,      \* ids handed out so far + 1
    variant,      \* which script runs: "Upright", "Cocktail", "Driving", "LightGun"
    pc,           \* "main", "build", "sweep", "returned", "export", "done",
                  \* "aborted" (the script ended by an exception);
                  \* "call", "returned" for a builder called on its own
    step,         \* next block of the build function
    root,         \* the build function's local `root` (0: not yet bound)
    sys_argv,     \* sys.argv of the run
    output_path,  \* main's local output_path ("" before main has run)
    exported,     \* the exporter calls made so far, with their arguments
    bz_args,      \* cutout-panel run: the call's arguments (<<>> outside such a run)
    sw_path,      \* sweep: the path being swept (<<>> outside a sweep)
    sw_rest,      \* sweep: the paths still to sweep after sw_path
    sw_kind,      \* sweep: "tube" or "strip" ("" outside a sweep)
    sw_i,         \* sweep: loop index (0-based, as in the source)
    segments,     \* sweep: the loop's local list `segments` (object ids)
    bm,           \* sweep: the bmesh add_strip writes into
    result,       \* direct builder call: [obj, raised], the object returned (0: None)
                  \* and the exception that ended the call ("": none)
    builds,       \* build function calls made so far in this process
    other,        \* a second build running in the same host: [pc, root, made],
                  \* where it stands, its local `root`, the ids it created
    previous,     \* the build before this one in the process: [variant, nodes],
                  \* the nodes it left, in creation order
    order         \* the blocks of the build function, in the order they run

vars == <<objects, active, next_id, variant, pc, step, root, sys_argv,
          output_path, exported, bz_args, sw_path, sw_rest, sw_kind, sw_i,
          segments, bm, result, builds, other, previous, order>>

-----------------------------------------------------------------------------
(* Vector arithmetic (mathutils.Vector), on integer triples.               *)

VAdd(a, b) == <<a[1] + b[1], a[2] + b[2], a[3] + b[3]>>

VSub(a, b) == <<a[1] - b[1], a[2] - b[2], a[3] - b[3]>>

Dot(a, b) == a[1] * b[1] + a[2] * b[2] + a[3] * b[3]

Cross(a, b) == <<a[2] * b[3] - a[3] * b[2],
                 a[3] * b[1] - a[1] * b[3],
                 a[1] * b[2] - a[2] * b[1]>>

Abs(x) == IF x < 0 THEN 0 - x ELSE x

Sgn(x) == IF x < 0 THEN 0 - 1 ELSE IF x > 0 THEN 1 ELSE 0

\* Vector.length squared
LengthSq(a) == Dot(a, a)

Zero3 == <<0, 0, 0>>

One3 == <<10000, 10000, 10000>>

\* An angle k*pi/6 + m/1000 rad
Angle(k, m) == <<k, m>>

\* rotation_euler = (0, 0, 0), the value a new object has
NoRotation == [mode |-> "XYZ", euler |-> <<Angle(0, 0), Angle(0, 0), Angle(0, 0)>>]

Euler(a, b, c) == [mode |-> "XYZ", euler |-> <<a, b, c>>]

-----------------------------------------------------------------------------
(* Sequence helpers.                                                       *)

Range(f) == {f[i] : i \in DOMAIN f}

RECURSIVE SumSeq(_)
SumSeq(q) == IF q = <<>> THEN 0 ELSE Head(q) + SumSeq(Tail(q))

Reverse(q) == [i \in 1..Len(q) |-> q[Len(q) + 1 - i]]

\* TRUE.  The model checker computes an operator's argument or a LET
\* definition where it is first used; a test Evaluated(x) makes it compute x
\* there and then, before the expression that goes on with x.
Evaluated(x) == x = x

\* Python's str.startswith
StartsWith(str, prefix) ==
    /\ Len(str) >= Len(prefix)
    /\ SubSeq(str, 1, Len(prefix)) = prefix

\* Python's `sub in str`
Contains(str, sub) ==
    \E i \in 1..(Len(str) - Len(sub) + 1) : SubSeq(str, i, i + Len(sub) - 1) = sub

\* The ids of a set in ascending order (the host walks its objects in creation order)
SortedIds(S) ==
    [i \in 1..Cardinality(S) |->
        CHOOSE x \in S : Cardinality({y \in S : y < x}) = i - 1]

-----------------------------------------------------------------------------
(* The host scene (bpy.data.objects, selection, active object).            *)
(* A scene value is [objects, active, next_id]; the operators below are    *)
(* the host operations the scripts call, each returning the scene after.   *)

Scene(objs, act, nid) == [objects |-> objs, active |-> act, next_id |-> nid]

\* A mesh is a sequence of parts.  A part written through bmesh carries its
\* vertices and faces (faces index the part's vertices from 1); a part made by
\* a host primitive operator carries the operator's arguments.  `baked` lists
\* the transforms applied to the part's vertex data, in order.
Part(kind, verts, faces, params) ==
    [kind |-> kind, verts |-> verts, faces |-> faces, params |-> params,
     baked |-> <<>>]

NoParams == [size |-> 0, radius |-> 0, depth |-> 0, minor |-> 0]

BmeshPart(b) == Part("bmesh", b.verts, b.faces, NoParams)

\* The suffix the host appends to make a name unique
NameSuffix(n) ==
    CASE n = 1 -> ".001" [] n = 2 -> ".002" [] n = 3 -> ".003"
      [] n = 4 -> ".004" [] n = 5 -> ".005" [] n = 6 -> ".006"
      [] n = 7 -> ".007" [] n = 8 -> ".008" [] n = 9 -> ".009"
      [] n = 10 -> ".010" [] n = 11 -> ".011" [] n = 12 -> ".012"
      [] OTHER -> ".999"

\* Object names are unique in the host: a name already taken by another
\* object gets the first free numeric suffix.
unique_name(objs, id, name) ==
    LET taken == {objs[o].name : o \in (DOMAIN objs) \ {id}}
    IN IF name \notin taken THEN name
       ELSE LET n == CHOOSE k \in 1..13 :
                        /\ (name \o NameSuffix(k)) \notin taken
                        /\ \A j \in 1..(k - 1) : (name \o NameSuffix(j)) \in taken
            IN name \o NameSuffix(n)

NewObject(name, type, mesh, location, selected) ==
    [name |-> name, type |-> type, mesh |-> mesh, parent |-> 0,
     selected |-> selected, location |-> location,
     rotation |-> NoRotation, scale |-> One3]

\* bpy.ops.object.select_all(action='SELECT')
select_all_select(s) ==
    Scene([o \in DOMAIN s.objects |-> [s.objects[o] EXCEPT !.selected = TRUE]],
          s.active, s.next_id)

\* bpy.ops.object.select_all(action='DESELECT')
select_all_deselect(s) ==
    Scene([o \in DOMAIN s.objects |-> [s.objects[o] EXCEPT !.selected = FALSE]],
          s.active, s.next_id)

\* obj.select_set(True)
select_set(s, id) ==
    Scene([s.objects EXCEPT ![id].selected = TRUE], s.active, s.next_id)

\* bpy.context.view_layer.objects.active = obj
set_active(s, id) == Scene(s.objects, id, s.next_id)

\* Fault: the host's delete spares the active object
object_delete_spares_active(s) ==
    Scene([o \in {x \in DOMAIN s.objects : ~s.objects[x].selected \/ x = s.active} |->
              [s.objects[o] EXCEPT !.parent = 0]],
          s.active, s.next_id)

\* bpy.ops.object.delete(): removes the selected objects; a surviving child of
\* a removed object loses its parent.
object_delete(s) ==
    LET gone == {o \in DOMAIN s.objects : s.objects[o].selected}
        keep == (DOMAIN s.objects) \ gone
    IN Scene([o \in keep |->
                 IF s.objects[o].parent \in gone
                 THEN [s.objects[o] EXCEPT !.parent = 0]
                 ELSE s.objects[o]],
             IF s.active \in gone THEN 0 ELSE s.active,
             s.next_id)

\* What every bpy.ops.*_add operator does with the object it creates: all
\* other objects are deselected, the new one is selected and active.
add_object(s, default_name, type, mesh, location) ==
    LET id == s.next_id
        d == select_all_deselect(s)
        nm == unique_name(d.objects, id, default_name)
    IN Scene([o \in (DOMAIN d.objects) \cup {id} |->
                 IF o = id THEN NewObject(nm, type, mesh, location, TRUE)
                 ELSE d.objects[o]],
             id, id + 1)

\* bpy.ops.object.empty_add(type='PLAIN_AXES', location=...)
empty_add(s, location) == add_object(s, "Empty", "EMPTY", <<>>, location)

\* bpy.ops.mesh.primitive_cube_add(size=..., location=...)
primitive_cube_add(s, size, location) ==
    add_object(s, "Cube", "MESH",
               <<Part("cube", <<>>, <<>>, [NoParams EXCEPT !.size = size])>>,
               location)

\* bpy.ops.mesh.primitive_plane_add(size=..., location=...)
primitive_plane_add(s, size, location) ==
    add_object(s, "Plane", "MESH",
               <<Part("plane", <<>>, <<>>, [NoParams EXCEPT !.size = size])>>,
               location)

\* bpy.ops.mesh.primitive_cylinder_add(radius=..., depth=..., location=...)
primitive_cylinder_add(s, radius, depth, location) ==
    add_object(s, "Cylinder", "MESH",
               <<Part("cylinder", <<>>, <<>>,
                      [NoParams EXCEPT !.radius = radius, !.depth = depth])>>,
               location)

\* bpy.ops.mesh.primitive_torus_add(major_radius=..., minor_radius=..., location=...)
primitive_torus_add(s, major_radius, minor_radius, location) ==
    add_object(s, "Torus", "MESH",
               <<Part("torus", <<>>, <<>>,
                      [NoParams EXCEPT !.radius = major_radius, !.minor = minor_radius])>>,
               location)

\* bpy.ops.mesh.primitive_uv_sphere_add(radius=..., location=...)
primitive_uv_sphere_add(s, radius, location) ==
    add_object(s, "Sphere", "MESH",
               <<Part("uv_sphere", <<>>, <<>>, [NoParams EXCEPT !.radius = radius])>>,
               location)

\* obj = bpy.data.objects.new(name, mesh); bpy.context.collection.objects.link(obj):
\* the new object is neither selected nor active.
objects_new_link(s, name, mesh) ==
    LET id == s.next_id
        nm == unique_name(s.objects, id, name)
    IN Scene([o \in (DOMAIN s.objects) \cup {id} |->
                 IF o = id THEN NewObject(nm, "MESH", mesh, Zero3, FALSE)
                 ELSE s.objects[o]],
             s.active, id + 1)

\* The id objects_new_link gives the object it creates
new_id(s) == s.next_id

\* Fault: the assignment `obj.name = name` is lost
set_name_lost(s, id, name) == s

\* obj.name = name
set_name(s, id, name) ==
    Scene([s.objects EXCEPT ![id].name = unique_name(s.objects, id, name)],
          s.active, s.next_id)

\* obj.scale = (x, y, z)
set_scale(s, id, scale) ==
    Scene([s.objects EXCEPT ![id].scale = scale], s.active, s.next_id)

\* obj.rotation_euler = (a, b, c)
set_rotation_euler(s, id, a, b, c) ==
    Scene([s.objects EXCEPT ![id].rotation = Euler(a, b, c)], s.active, s.next_id)

\* obj.location = (x, y, z)
set_location(s, id, location) ==
    Scene([s.objects EXCEPT ![id].location = location], s.active, s.next_id)

\* Fault: the assignment `obj.parent = parent` is lost
set_parent_lost(s, id, parent) == s

\* obj.parent = parent
set_parent(s, id, parent) ==
    Scene([s.objects EXCEPT ![id].parent = parent], s.active, s.next_id)

\* The local transform an object carries (not yet applied to its vertex data)
Xf(o) == [location |-> o.location, rotation |-> o.rotation, scale |-> o.scale]

IdentityXf == [location |-> Zero3, rotation |-> NoRotation, scale |-> One3]

BakeInto(mesh, xf, into) ==
    [k \in 1..Len(mesh) |->
        [mesh[k] EXCEPT !.baked = Append(@, [xf |-> xf, into |-> into])]]

\* bpy.ops.object.transform_apply(location=True, rotation=True, scale=True):
\* every flag defaults to True in the host.  It acts on the SELECTED objects:
\* the chosen components of each one's local transform are applied to its
\* vertex data and reset on the object.
transform_apply(s, location, rotation, scale) ==
    LET applied(o) == [location |-> IF location THEN o.location ELSE Zero3,
                       rotation |-> IF rotation THEN o.rotation ELSE NoRotation,
                       scale    |-> IF scale THEN o.scale ELSE One3]
        after(o) == [o EXCEPT
                       !.mesh = IF applied(o) = IdentityXf THEN @
                                ELSE BakeInto(@, applied(o), IdentityXf),
                       !.location = IF location THEN Zero3 ELSE @,
                       !.rotation = IF rotation THEN NoRotation ELSE @,
                       !.scale = IF scale THEN One3 ELSE @]
    IN Scene([o \in DOMAIN s.objects |->
                 IF s.objects[o].selected THEN after(s.objects[o]) ELSE s.objects[o]],
             s.active, s.next_id)

\* The parts of the objects ids (in that order), each brought into the space
\* `into`: part j of object ids[i] comes after every part of ids[1..i-1].
JoinedMesh(objs, ids, into) ==
    LET slots == UNION {{<<i, j>> : j \in 1..Len(objs[ids[i]].mesh)} : i \in 1..Len(ids)}
        before(p) == {q \in slots : q[1] < p[1] \/ (q[1] = p[1] /\ q[2] < p[2])}
        slot(n) == CHOOSE p \in slots : Cardinality(before(p)) = n - 1
    IN [n \in 1..Cardinality(slots) |->
           BakeInto(objs[ids[slot(n)[1]]].mesh, Xf(objs[ids[slot(n)[1]]]), into)[slot(n)[2]]]

\* Fault: a join that removes the other selected objects without taking
\* their meshes over
object_join_drops_meshes(s) ==
    LET others == {o \in DOMAIN s.objects :
                      /\ o # s.active
                      /\ s.objects[o].selected
                      /\ s.objects[o].type = "MESH"}
    IN Scene([o \in (DOMAIN s.objects) \ others |-> s.objects[o]], s.active, s.next_id)

\* bpy.ops.object.join(): the meshes of the other selected mesh objects are
\* appended to the active object's mesh (brought into its local space) and
\* those objects are removed.  Cancelled when the active object is not a
\* selected mesh object.
object_join(s) ==
    IF \/ s.active \notin DOMAIN s.objects
       \/ ~s.objects[s.active].selected
       \/ s.objects[s.active].type # "MESH"
    THEN s
    ELSE LET a == s.active
             others == {o \in DOMAIN s.objects :
                           /\ o # a
                           /\ s.objects[o].selected
                           /\ s.objects[o].type = "MESH"}
             merged == s.objects[a].mesh
                       \o JoinedMesh(s.objects, SortedIds(others), Xf(s.objects[a]))
         IN Scene([o \in (DOMAIN s.objects) \ others |->
                      IF o = a THEN [s.objects[o] EXCEPT !.mesh = merged]
                      ELSE IF s.objects[o].parent \in others
                           THEN [s.objects[o] EXCEPT !.parent = 0]
                           ELSE s.objects[o]],
                  a, s.next_id)

-----------------------------------------------------------------------------
(* bmesh: the vertex/face accumulator the builders write into.             *)

\* bmesh.new()
bmesh_new == [verts |-> <<>>, faces |-> <<>>, raised |-> FALSE]

\* bm.verts.new(co): appends a vertex; the handle is its index
bm_verts_new(b, co) == IF b.raised THEN b ELSE [b EXCEPT !.verts = Append(@, co)]

\* What makes bm.faces.new(face) raise ValueError: fewer than 3 vertices, a
\* vertex used twice, or a face on the same vertices as one in `existing`.
\* Vertices are handles: two vertices at the same position are different
\* vertices.
face_raises(nverts, existing, face) ==
    \/ Len(face) < 3
    \/ \E i \in 1..Len(face) : face[i] \notin 1..nverts
    \/ \E i, j \in 1..Len(face) : i # j /\ face[i] = face[j]
    \/ \E k \in 1..Len(existing) : Range(existing[k]) = Range(face)

\* bm.faces.new(face).  An exception ends the builder: nothing is added to a
\* bmesh once a call has raised.
bm_faces_new(b, face) ==
    IF b.raised THEN b
    ELSE IF face_raises(Len(b.verts), b.faces, face) THEN [b EXCEPT !.raised = TRUE]
         ELSE [b EXCEPT !.faces = Append(@, face)]

\* `for co in cos: bm.verts.new(co)`
bm_verts_all(b, cos) ==
    IF b.raised THEN b ELSE [b EXCEPT !.verts = @ \o cos]

\* `for face in faces: bm.faces.new(face)`: the faces up to the first call
\* that raises are added.
bm_faces_all(b, faces) ==
    LET bad == {k \in 1..Len(faces) :
                   face_raises(Len(b.verts), b.faces \o SubSeq(faces, 1, k - 1), faces[k])}
        upto == IF bad = {} THEN Len(faces)
                ELSE (CHOOSE k \in bad : \A j \in bad : k <= j) - 1
    IN IF b.raised THEN b
       ELSE [b EXCEPT !.faces = @ \o SubSeq(faces, 1, upto), !.raised = (bad # {})]

-----------------------------------------------------------------------------
(* Profile extrusion: the side panels.                                     *)

\* profile_2d of create_side_panel (x, z), upright cabinet
profile_2d_upright ==
    <<
       <<0, 0>>, <<0, 1500>>, <<0 - 500, 2000>>, <<0 - 500, 7000>>,
       <<0 - 1500, 8500>>, <<0 - 1500, 11000>>, <<0 - 1000, 12000>>, <<0 - 500, 15000>>,
       <<0 - 800, 16500>>, <<0 - 1000, 17500>>, <<0 - 1000, 19000>>, <<0 - 500, 19500>>,
       <<0 - 3500, 19500>>, <<0 - 4000, 18500>>, <<0 - 4000, 0>>
    >>

\* profile_2d of create_side_panel_driving
profile_2d_driving ==
    <<
       <<0, 0>>, <<0, 4000>>, <<0 - 2000, 5000>>, <<0 - 3000, 8000>>,
       <<0 - 3500, 11000>>, <<0 - 3000, 15000>>, <<0 - 2500, 17000>>, <<0 - 2000, 18500>>,
       <<0 - 1500, 19500>>, <<0 - 8000, 19500>>, <<0 - 8500, 18000>>, <<0 - 8500, 3500>>,
       <<0 - 8000, 0>>
    >>

\* profile_2d of create_side_panel_lightgun
profile_2d_lightgun ==
    <<
       <<0, 0>>, <<0, 2000>>, <<0 - 1000, 3000>>, <<0 - 1000, 9000>>,
       <<0 - 1500, 10000>>, <<0 - 1200, 15000>>, <<0 - 800, 18000>>, <<0 - 500, 19500>>,
       <<0 - 500, 21000>>, <<0, 21500>>, <<0 - 5000, 21500>>, <<0 - 5500, 20000>>,
       <<0 - 5500, 0>>
    >>

\* Fault: the loop stops one short, `for i in range(n - 1)`, and leaves the
\* wall open between the last profile point and the first
side_faces_open(n) ==
    [k \in 1..(n - 1) |-> <<k, k + 1, n + k + 1, n + k>>]

\* Fault: the side quads wound the other way round,
\* [front_verts[i], back_verts[i], back_verts[j], front_verts[j]]
side_faces_backward(n) ==
    [k \in 1..n |->
        LET i == k - 1
            j == (i + 1) % n
        IN <<i + 1, n + i + 1, n + j + 1, j + 1>>]

\* The n side faces: for i in range(n): j = (i + 1) % n;
\* [front_verts[i], front_verts[j], back_verts[j], back_verts[i]].
\* Vertex handles: front_verts[i] is vertex i + 1, back_verts[i] is n + i + 1.
side_faces(n) ==
    [k \in 1..n |->
        LET i == k - 1
            j == (i + 1) % n
        IN <<i + 1, j + 1, n + j + 1, n + i + 1>>]

\* The extrusion all three side-panel builders perform: the front ring at
\* y_front, the back ring at y_back, the front face, the reversed back face
\* and the side faces.
extrude_profile(profile_2d, y_front, y_back) ==
    LET n == Len(profile_2d)
        ring(y) == [i \in 1..n |-> <<profile_2d[i][1], y, profile_2d[i][2]>>]
        b1 == bm_verts_all(bmesh_new, ring(y_front))
        b2 == bm_verts_all(b1, ring(y_back))
        front_verts == [i \in 1..n |-> i]
        back_verts == [i \in 1..n |-> n + i]
        b3 == bm_faces_new(b2, front_verts)
        b4 == bm_faces_new(b3, Reverse(back_verts))
    IN bm_faces_all(b4, side_faces(n))

\* create_side_panel(name, is_right) of the upright cabinet; thickness 0.02
create_side_panel(s, name, is_right) ==
    LET thickness == 200
        b == extrude_profile(profile_2d_upright,
                             IF is_right THEN thickness \div 2 ELSE 0 - (thickness \div 2),
                             IF is_right THEN 0 - (thickness \div 2) ELSE thickness \div 2)
        obj == new_id(s)
        s1 == objects_new_link(s, name, <<BmeshPart(b)>>)
        y_offset == IF is_right THEN 2500 ELSE 0 - 2500
    IN set_location(s1, obj, <<0, y_offset, 0>>)

\* create_side_panel_driving(name, is_right)
create_side_panel_driving(s, name, is_right) ==
    LET thickness == 200
        y_offset == IF is_right THEN 5000 ELSE 0 - 5000
        y_back == IF is_right THEN y_offset - thickness ELSE y_offset + thickness
        b == extrude_profile(profile_2d_driving, y_offset, y_back)
    IN objects_new_link(s, name, <<BmeshPart(b)>>)

\* create_side_panel_lightgun(name, is_right)
create_side_panel_lightgun(s, name, is_right) ==
    LET thickness == 200
        y_offset == IF is_right THEN thickness \div 2 ELSE 0 - (thickness \div 2)
        y_back == IF is_right THEN 0 - (thickness \div 2) ELSE thickness \div 2
        b == extrude_profile(profile_2d_lightgun, y_offset, y_back)
        obj == new_id(s)
        s1 == objects_new_link(s, name, <<BmeshPart(b)>>)
        y_pos == IF is_right THEN 4000 ELSE 0 - 4000
    IN set_location(s1, obj, <<0, y_pos, 0>>)

-----------------------------------------------------------------------------
(* Cutout panels: the bezels.                                              *)

\* Fault: the four cutout-edge faces are left out
bezel_faces_no_bore ==
    << <<1, 2, 6, 5>>, <<2, 3, 7, 6>>, <<3, 4, 8, 7>>, <<4, 1, 5, 8>>,
       <<13, 14, 10, 9>>, <<14, 15, 11, 10>>, <<15, 16, 12, 11>>, <<16, 13, 9, 12>>,
       <<1, 9, 10, 2>>, <<2, 10, 11, 3>>, <<3, 11, 12, 4>>, <<4, 12, 9, 1>> >>

\* Fault: the four cutout-edge faces wound the other way round
bezel_faces_bore_inverted ==
    << <<1, 2, 6, 5>>, <<2, 3, 7, 6>>, <<3, 4, 8, 7>>, <<4, 1, 5, 8>>,
       <<13, 14, 10, 9>>, <<14, 15, 11, 10>>, <<15, 16, 12, 11>>, <<16, 13, 9, 12>>,
       <<1, 9, 10, 2>>, <<2, 10, 11, 3>>, <<3, 11, 12, 4>>, <<4, 12, 9, 1>>,
       <<13, 14, 6, 5>>, <<14, 15, 7, 6>>, <<15, 16, 8, 7>>, <<16, 13, 5, 8>> >>

\* The 16 faces every create_bezel_with_cutout emits.  Vertex handles in
\* creation order: v1..v4 = 1..4, v5..v8 = 5..8, v1b..v4b = 9..12,
\* v5b..v8b = 13..16.
bezel_faces ==
    <<  \* front face (with hole): [v1,v2,v6,v5] [v2,v3,v7,v6] [v3,v4,v8,v7] [v4,v1,v5,v8]
        <<1, 2, 6, 5>>, <<2, 3, 7, 6>>, <<3, 4, 8, 7>>, <<4, 1, 5, 8>>,
        \* back face: [v5b,v6b,v2b,v1b] [v6b,v7b,v3b,v2b] [v7b,v8b,v4b,v3b] [v8b,v5b,v1b,v4b]
        <<13, 14, 10, 9>>, <<14, 15, 11, 10>>, <<15, 16, 12, 11>>, <<16, 13, 9, 12>>,
        \* outer edges: [v1,v1b,v2b,v2] [v2,v2b,v3b,v3] [v3,v3b,v4b,v4] [v4,v4b,v1b,v1]
        <<1, 9, 10, 2>>, <<2, 10, 11, 3>>, <<3, 11, 12, 4>>, <<4, 12, 9, 1>>,
        \* cutout edges: [v5,v6,v6b,v5b] [v6,v7,v7b,v6b] [v7,v8,v8b,v7b] [v8,v5,v5b,v8b]
        <<5, 6, 14, 13>>, <<6, 7, 15, 14>>, <<7, 8, 16, 15>>, <<8, 5, 13, 16>>
    >>

\* Fault: the cutout ring is laid out with cutout_w where cutout_w / 2 belongs
bezel_verts_xz_wide_cutout(hw, hh, chw, chh, t) ==
    << <<0 - hw, 0 - t, 0 - hh>>, <<hw, 0 - t, 0 - hh>>,
       <<hw, 0 - t, hh>>, <<0 - hw, 0 - t, hh>>,
       <<0 - 2 * chw, 0 - t, 0 - chh>>, <<2 * chw, 0 - t, 0 - chh>>,
       <<2 * chw, 0 - t, chh>>, <<0 - 2 * chw, 0 - t, chh>>,
       <<0 - hw, t, 0 - hh>>, <<hw, t, 0 - hh>>,
       <<hw, t, hh>>, <<0 - hw, t, hh>>,
       <<0 - 2 * chw, t, 0 - chh>>, <<2 * chw, t, 0 - chh>>,
       <<2 * chw, t, chh>>, <<0 - 2 * chw, t, chh>> >>

\* The 16 vertices of the upright, driving and light-gun bezels: the panel
\* stands in the x-z plane, front ring at y = -t, back ring at y = +t.
bezel_verts_xz(hw, hh, chw, chh, t) ==
    << <<0 - hw, 0 - t, 0 - hh>>, <<hw, 0 - t, 0 - hh>>,
       <<hw, 0 - t, hh>>, <<0 - hw, 0 - t, hh>>,
       <<0 - chw, 0 - t, 0 - chh>>, <<chw, 0 - t, 0 - chh>>,
       <<chw, 0 - t, chh>>, <<0 - chw, 0 - t, chh>>,
       <<0 - hw, t, 0 - hh>>, <<hw, t, 0 - hh>>,
       <<hw, t, hh>>, <<0 - hw, t, hh>>,
       <<0 - chw, t, 0 - chh>>, <<chw, t, 0 - chh>>,
       <<chw, t, chh>>, <<0 - chw, t, chh>> >>

\* The 16 vertices of the cocktail bezel: the panel lies in the x-y plane,
\* top ring at z = +t, bottom ring at z = -t.
bezel_verts_xy(hw, hh, chw, chh, t) ==
    << <<0 - hw, 0 - hh, t>>, <<hw, 0 - hh, t>>,
       <<hw, hh, t>>, <<0 - hw, hh, t>>,
       <<0 - chw, 0 - chh, t>>, <<chw, 0 - chh, t>>,
       <<chw, chh, t>>, <<0 - chw, chh, t>>,
       <<0 - hw, 0 - hh, 0 - t>>, <<hw, 0 - hh, 0 - t>>,
       <<hw, hh, 0 - t>>, <<0 - hw, hh, 0 - t>>,
       <<0 - chw, 0 - chh, 0 - t>>, <<chw, 0 - chh, 0 - t>>,
       <<chw, chh, 0 - t>>, <<0 - chw, chh, 0 - t>> >>

\* The dimensions each script builds its bezel with, as
\* <<outer_w, outer_h, cutout_w, cutout_h, thickness>>: the locals of the
\* upright's create_bezel_with_cutout, and the arguments of the call in each
\* of the other build functions (the cocktail passes table_width, table_depth).
bezel_args_upright == <<4500, 4000, 3500, 2800, 100>>

bezel_args_cocktail == <<7000, 5500, 4500, 3500, 100>>

bezel_args_driving == <<9000, 5500, 7500, 4500, 200>>

bezel_args_lightgun == <<7500, 5500, 6000, 4200, 150>>

\* create_bezel_with_cutout() of the upright cabinet: fixed dimensions;
\* the object gets a location and a rotation that are never applied.
create_bezel_with_cutout(s) ==
    LET outer_width == bezel_args_upright[1]
        outer_height == bezel_args_upright[2]
        thickness == bezel_args_upright[5]
        cutout_width == bezel_args_upright[3]
        cutout_height == bezel_args_upright[4]
        b1 == bm_verts_all(bmesh_new,
                  bezel_verts_xz(outer_width \div 2, outer_height \div 2,
                                 cutout_width \div 2, cutout_height \div 2,
                                 thickness \div 2))
        b2 == bm_faces_all(b1, bezel_faces)
        obj == new_id(s)
        s1 == objects_new_link(s, "bezel", <<BmeshPart(b2)>>)
        s2 == set_location(s1, obj, <<0 - 700, 0, 13500>>)
    IN set_rotation_euler(s2, obj, Angle(0, 0), Angle(0, 0 - 250), Angle(0, 0))

\* create_bezel_with_cutout(name, outer_w, outer_h, cutout_w, cutout_h, thickness)
\* of the cocktail cabinet.  No argument is checked.
create_bezel_with_cutout_cocktail(s, name, outer_w, outer_h, cutout_w, cutout_h, thickness) ==
    LET b1 == bm_verts_all(bmesh_new,
                  bezel_verts_xy(outer_w \div 2, outer_h \div 2,
                                 cutout_w \div 2, cutout_h \div 2, thickness \div 2))
        b2 == bm_faces_all(b1, bezel_faces)
    IN objects_new_link(s, name, <<BmeshPart(b2)>>)

\* create_bezel_with_cutout(...) of the driving cabinet.  No argument is checked.
create_bezel_with_cutout_driving(s, name, outer_w, outer_h, cutout_w, cutout_h, thickness) ==
    LET b1 == bm_verts_all(bmesh_new,
                  bezel_verts_xz(outer_w \div 2, outer_h \div 2,
                                 cutout_w \div 2, cutout_h \div 2, thickness \div 2))
        b2 == bm_faces_all(b1, bezel_faces)
    IN objects_new_link(s, name, <<BmeshPart(b2)>>)

\* create_bezel_with_cutout(...) of the light-gun cabinet.  No argument is checked.
create_bezel_with_cutout_lightgun(s, name, outer_w, outer_h, cutout_w, cutout_h, thickness) ==
    LET b1 == bm_verts_all(bmesh_new,
                  bezel_verts_xz(outer_w \div 2, outer_h \div 2,
                                 cutout_w \div 2, cutout_h \div 2, thickness \div 2))
        b2 == bm_faces_all(b1, bezel_faces)
    IN objects_new_link(s, name, <<BmeshPart(b2)>>)

-----------------------------------------------------------------------------
(* Path sweeps: the T-molding.                                             *)

RECURSIVE ISqrtIn(_, _, _)
ISqrtIn(n, lo, hi) ==
    IF lo >= hi THEN lo
    ELSE LET mid == (lo + hi + 1) \div 2
         IN IF mid * mid <= n THEN ISqrtIn(n, mid, hi) ELSE ISqrtIn(n, lo, mid - 1)

\* Vector.length, rounded down to the unit
Length(a) == ISqrtIn(LengthSq(a), 0, 46340)

\* Fault: only a pair of equal waypoints is skipped, `if length == 0`
too_short_only_equal(direction) == LengthSq(direction) = 0

\* `length < 0.001`: the segment is skipped (0.001 m = 10 units)
too_short(direction) == LengthSq(direction) < 10 * 10

\* abs(direction.dot(up)) > 0.999 for the normalised direction and up = (0, 0, 1):
\* dz^2 > 0.998001 * |d|^2, i.e. 10^6 * (dx^2 + dy^2) < 1999 * |d|^2, computed
\* without leaving 32 bits.
nearly_vertical(direction) ==
    LET L == LengthSq(direction)
        h == direction[1] * direction[1] + direction[2] * direction[2]
        M == L - (L \div 2000)
    IN h <= (M - 1) \div 500

\* up = Vector((0, 0, 1)); if abs(direction.dot(up)) > 0.999: up = Vector((1, 0, 0))
up_reference(direction) ==
    IF nearly_vertical(direction) THEN <<1, 0, 0>> ELSE <<0, 0, 1>>

\* rot_axis.length > 0.001 for rot_axis = up.cross(normalised direction):
\* |up x d|^2 * 10^6 > |d|^2
rot_axis_usable(up, direction) ==
    LengthSq(Cross(up, direction)) > LengthSq(direction) \div 1000000

\* create_tube_segment(p1, p2, r), the same closure in the cocktail, driving
\* and light-gun T-molding builders.  Returns the scene after; the segment
\* (when one is built) is the scene's new active object.
create_tube_segment(s, p1, p2, r) ==
    LET direction == VSub(p2, p1)
    IN IF too_short(direction) THEN s
       ELSE LET s1 == primitive_cylinder_add(s, r, Length(direction),
                          <<(p1[1] + p2[1]) \div 2, (p1[2] + p2[2]) \div 2,
                            (p1[3] + p2[3]) \div 2>>)
                cyl == s1.active
                up == up_reference(direction)
            IN IF rot_axis_usable(up, direction)
               THEN Scene([s1.objects EXCEPT ![cyl].rotation =
                              [mode |-> "AXIS_ANGLE", up |-> up,
                               direction |-> direction,
                               axis |-> Cross(up, direction)]],
                          s1.active, s1.next_id)
               ELSE s1

\* What create_tube_segment returns: None (0) for a skipped segment, else cyl
tube_segment_result(s, p1, p2) ==
    IF too_short(VSub(p2, p1)) THEN 0 ELSE new_id(s)

\* One pass of `for i in range(len(path) - 1)`: seg = create_tube_segment(
\* path[i], path[i+1], radius); if seg: segments.append(seg).
\* A loop state is [scene, segments]; i is the source's 0-based index.
tube_loop_body(st, path, i, radius) ==
    LET seg == tube_segment_result(st.scene, path[i + 1], path[i + 2])
    IN [scene |-> create_tube_segment(st.scene, path[i + 1], path[i + 2], radius),
        segments |-> IF seg # 0 THEN Append(st.segments, seg) ELSE st.segments]

\* for seg in segments: seg.select_set(True)
select_each(s, ids) ==
    Scene([o \in DOMAIN s.objects |->
              IF o \in Range(ids) THEN [s.objects[o] EXCEPT !.selected = TRUE]
              ELSE s.objects[o]],
          s.active, s.next_id)

\* The tail of the three tube builders: `if segments:` join them into
\* segments[0], name it "t-molding" and return it; otherwise return None (0)
\* and add nothing.  The value is [scene, result].
join_segments(s, segs) ==
    IF segs = <<>> THEN [scene |-> s, result |-> 0]
    ELSE LET s1 == select_all_deselect(s)
             s2 == select_each(s1, segs)
             s3 == set_active(s2, segs[1])
             s4 == object_join(s3)
             obj == s4.active
         IN IF Evaluated(s2) /\ Evaluated(s4)
            THEN [scene |-> set_name(s4, obj, "t-molding"), result |-> obj]
            ELSE [scene |-> s, result |-> 0]

\* path of create_t_molding_cocktail: table_w 0.70, table_d 0.55, table_h 0.70
path_cocktail ==
    LET table_w == 7000
        table_d == 5500
        table_h == 7000
        hw == table_w \div 2
        hd == table_d \div 2
    IN << <<hw, 0 - hd, table_h>>, <<hw, hd, table_h>>, <<0 - hw, hd, table_h>>,
          <<0 - hw, 0 - hd, table_h>>, <<hw, 0 - hd, table_h>> >>

\* path of create_t_molding_driving
path_driving ==
    << <<0 - 2000, 0 - 5000, 5000>>, <<0 - 2000, 0 - 5000, 17000>>,
       <<0 - 1500, 0 - 5000, 19500>>, <<0 - 1500, 5000, 19500>>,
       <<0 - 2000, 5000, 17000>>, <<0 - 2000, 5000, 5000>> >>

\* path of create_t_molding_lightgun (front edge)
path_lightgun ==
    << <<0 - 1000, 0 - 4000, 3000>>, <<0 - 1000, 4000, 3000>>,
       <<0 - 1000, 4000, 9000>>, <<0 - 1500, 4000, 10000>>,
       <<0 - 1500, 0 - 4000, 10000>>, <<0 - 1000, 0 - 4000, 9000>>,
       <<0 - 1000, 0 - 4000, 3000>> >>

\* path2 of create_t_molding_lightgun (top edge)
path2_lightgun ==
    << <<0 - 500, 0 - 4000, 19500>>, <<0 - 500, 4000, 19500>>,
       <<0 - 500, 4000, 21000>>, <<0 - 500, 0 - 4000, 21000>>,
       <<0 - 500, 0 - 4000, 19500>> >>

\* abs(direction.z) > 0.9 for the normalised direction: 100 * dz^2 > 81 * |d|^2,
\* computed without leaving 32 bits.  c is the component index (3: z, 2: y).
component_dominates(direction, c) ==
    LET L == LengthSq(direction)
        q == L \div 100
        r == L % 100
    IN direction[c] * direction[c] > 81 * q + ((81 * r) \div 100)

\* The two half-extent vectors add_strip picks for a unit direction
strip_perps(direction, w, d) ==
    IF component_dominates(direction, 3)
    THEN << <<w \div 2, 0, 0>>, <<0, d \div 2, 0>> >>
    ELSE IF component_dominates(direction, 2)
         THEN << <<d \div 2, 0, 0>>, <<0, 0, w \div 2>> >>
         ELSE << <<0, d \div 2, 0>>, <<0, 0, w \div 2>> >>

\* add_strip(p1, p2, w, d) of the upright's create_t_molding: returns without
\* adding anything when the two points are closer than 0.001; otherwise adds
\* 8 vertices and 6 faces of a box to the shared bmesh.
add_strip(b, p1, p2, w, d) ==
    LET start == p1
        end == p2
        direction == VSub(end, start)
    IN IF too_short(direction) THEN b
       ELSE LET perp1 == strip_perps(direction, w, d)[1]
                perp2 == strip_perps(direction, w, d)[2]
                corners(point) ==
                    << VSub(VSub(point, perp1), perp2), VSub(VAdd(point, perp1), perp2),
                       VAdd(VAdd(point, perp1), perp2), VAdd(VSub(point, perp1), perp2) >>
                o == Len(b.verts)
                b1 == bm_verts_all(b, corners(start) \o corners(end))
                v(k) == o + k + 1
            IN bm_faces_all(b1,
                   << <<v(0), v(1), v(2), v(3)>>, <<v(7), v(6), v(5), v(4)>>,
                      <<v(0), v(4), v(5), v(1)>>, <<v(1), v(5), v(6), v(2)>>,
                      <<v(2), v(6), v(7), v(3)>>, <<v(3), v(7), v(4), v(0)>> >>)

\* The five add_strip calls of create_t_molding, as (p1, p2) pairs
strips_upright ==
    << << <<0 - 400, 0 - 2600, 200>>, <<0 - 400, 0 - 2600, 19000>> >>,
       << <<0 - 400, 2600, 200>>, <<0 - 400, 2600, 19000>> >>,
       << <<0 - 400, 0 - 2600, 200>>, <<0 - 400, 2600, 200>> >>,
       << <<0 - 800, 0 - 2600, 19000>>, <<0 - 800, 2600, 19000>> >>,
       << <<0 - 400, 0 - 2600, 7000>>, <<0 - 400, 2600, 7000>> >> >>

\* What each script's T-molding builder sweeps: the paths its loops go
\* through, in order (the upright makes one add_strip call per pair)
t_molding_paths(v) ==
    CASE v = "Upright" -> strips_upright
      [] v = "Cocktail" -> <<path_cocktail>>
      [] v = "Driving" -> <<path_driving>>
      [] v = "LightGun" -> <<path_lightgun, path2_lightgun>>

\* "strip" for the upright's add_strip boxes, "tube" for the cylinders of the others
t_molding_kind(v) == IF v = "Upright" THEN "strip" ELSE "tube"

\* `radius` of the tube builders: 0.006 in the cocktail, 0.008 in the driving
\* and light-gun scripts (also used for a sweep run on its own)
tube_radius(v) == IF v = "Cocktail" THEN 60 ELSE 80

-----------------------------------------------------------------------------
(* The other part builders.                                                *)

\* Fault: create_box without `obj.name = name`
create_box_unnamed(s, name, dimensions, location) ==
    LET s1 == primitive_cube_add(s, 10000, location)
        obj == s1.active
        s3 == set_scale(s1, obj, dimensions)
    IN transform_apply(s3, TRUE, TRUE, TRUE)

\* create_box(name, dimensions, location) of the cocktail, driving and
\* light-gun scripts (the same function in each).  transform_apply(scale=True)
\* leaves location and rotation at their default, True.
create_box(s, name, dimensions, location) ==
    LET s1 == primitive_cube_add(s, 10000, location)
        obj == s1.active
        s2 == set_name(s1, obj, name)
        s3 == set_scale(s2, obj, dimensions)
    IN transform_apply(s3, TRUE, TRUE, TRUE)

\* create_flat_panel(name, width, height, thickness, location) of the upright,
\* always called with the default rotation (0, 0, 0)
create_flat_panel(s, name, width, height, thickness, location) ==
    LET s1 == primitive_cube_add(s, 10000, location)
        obj == s1.active
        s2 == set_name(s1, obj, name)
        s3 == set_scale(s2, obj, <<thickness, width, height>>)
        s4 == set_rotation_euler(s3, obj, Angle(0, 0), Angle(0, 0), Angle(0, 0))
    IN transform_apply(s4, TRUE, TRUE, TRUE)

\* create_screen() of the upright
create_screen(s) ==
    LET s1 == primitive_plane_add(s, 10000, <<0 - 600, 0, 13500>>)
        obj == s1.active
        s2 == set_name(s1, obj, "screen")
        s3 == set_scale(s2, obj, <<3200, 2600, 10000>>)
        s4 == set_rotation_euler(s3, obj, Angle(3, 0), Angle(0, 0 - 250), Angle(0, 0))
    IN transform_apply(s4, TRUE, TRUE, TRUE)

\* One pass of `for i in range(3)` in create_steering_wheel: a spoke
steering_wheel_spoke(s, location, i) ==
    LET s1 == primitive_cube_add(s, 10000, location)
        spoke == s1.active
        s2 == set_scale(s1, spoke, <<1200, 150, 100>>)
        s3 == set_rotation_euler(s2, spoke, Angle(3, 0 - 500), Angle(0, 0), Angle(4 * i, 0))
    IN transform_apply(s3, TRUE, TRUE, TRUE)

\* create_steering_wheel(name, location): rim, hub and three spokes joined
\* into the rim, which is then renamed; returns the rim
create_steering_wheel(s, name, location) ==
    LET s1 == primitive_torus_add(s, 1500, 150, location)
        wheel == s1.active
        s2 == set_rotation_euler(s1, wheel, Angle(3, 0 - 500), Angle(0, 0), Angle(0, 0))
        s3 == primitive_cylinder_add(s2, 400, 300, location)
        hub == s3.active
        s4 == set_rotation_euler(s3, hub, Angle(3, 0 - 500), Angle(0, 0), Angle(0, 0))
        s5 == steering_wheel_spoke(s4, location, 0)
        spoke0 == s5.active
        s6 == steering_wheel_spoke(s5, location, 1)
        spoke1 == s6.active
        s7 == steering_wheel_spoke(s6, location, 2)
        spoke2 == s7.active
        s8 == select_all_deselect(s7)
        s9 == select_set(select_set(s8, wheel), hub)
        s10 == select_each(s9, <<spoke0, spoke1, spoke2>>)
        s11 == set_active(s10, wheel)
        s12 == object_join(s11)
        s13 == set_name(s12, wheel, name)
    IN IF /\ Evaluated(s2) /\ Evaluated(s4) /\ Evaluated(s5) /\ Evaluated(s6)
          /\ Evaluated(s7) /\ Evaluated(s10) /\ Evaluated(s12)
       THEN transform_apply(s13, TRUE, TRUE, TRUE)
       ELSE s

\* create_pedals(parent): gas and brake pedal, each parented to `parent`
create_pedals(s, parent) ==
    LET s1 == create_box(s, "gas-pedal", <<800, 1200, 200>>, <<0 - 500, 1500, 500>>)
        gas == s1.active
        s2 == set_rotation_euler(s1, gas, Angle(0, 600), Angle(0, 0), Angle(0, 0))
        s3 == transform_apply(s2, TRUE, TRUE, TRUE)
        s4 == set_parent(s3, gas, parent)
        s5 == create_box(s4, "brake-pedal", <<1000, 1500, 200>>, <<0 - 500, 0 - 1000, 500>>)
        brake == s5.active
        s6 == set_rotation_euler(s5, brake, Angle(0, 600), Angle(0, 0), Angle(0, 0))
        s7 == transform_apply(s6, TRUE, TRUE, TRUE)
    IN IF Evaluated(s1) /\ Evaluated(s4) /\ Evaluated(s5)
       THEN set_parent(s7, brake, parent)
       ELSE s

\* create_gear_shifter(name, location): base, shaft and knob joined into the base
create_gear_shifter(s, name, location) ==
    LET s1 == primitive_cylinder_add(s, 250, 300, location)
        base == s1.active
        shaft_loc == <<location[1], location[2], location[3] + 800>>
        s2 == primitive_cylinder_add(s1, 120, 1300, shaft_loc)
        shaft == s2.active
        knob_loc == <<location[1], location[2], location[3] + 1500>>
        s3 == primitive_uv_sphere_add(s2, 250, knob_loc)
        knob == s3.active
        s4 == select_all_deselect(s3)
        s5 == select_set(select_set(select_set(s4, base), shaft), knob)
        s6 == set_active(s5, base)
        s7 == object_join(s6)
    IN IF Evaluated(s1) /\ Evaluated(s2) /\ Evaluated(s3) /\ Evaluated(s5)
       THEN set_name(s7, base, name)
       ELSE s

\* Fault: create_gun names every gun "gun", whatever name it is given
create_gun_one_name(s, name, location) ==
    LET s1 == primitive_cube_add(s, 10000, location)
        gun_body == s1.active
        s2 == set_scale(s1, gun_body, <<300, 1500, 400>>)
        s3 == transform_apply(s2, TRUE, TRUE, TRUE)
    IN set_name(s3, gun_body, "gun")

\* create_gun(name, location): body, barrel and handle joined into the body
create_gun(s, name, location) ==
    LET s1 == primitive_cube_add(s, 10000, location)
        gun_body == s1.active
        s2 == set_scale(s1, gun_body, <<300, 1500, 400>>)
        s3 == transform_apply(s2, TRUE, TRUE, TRUE)
        s4 == primitive_cylinder_add(s3, 120, 800,
                  <<location[1], location[2] + 1100, location[3]>>)
        barrel == s4.active
        s5 == set_rotation_euler(s4, barrel, Angle(3, 0), Angle(0, 0), Angle(0, 0))
        s6 == transform_apply(s5, TRUE, TRUE, TRUE)
        s7 == primitive_cube_add(s6, 10000,
                  <<location[1], location[2] - 200, location[3] - 500>>)
        handle == s7.active
        s8 == set_scale(s7, handle, <<200, 400, 600>>)
        s9 == set_rotation_euler(s8, handle, Angle(0, 300), Angle(0, 0), Angle(0, 0))
        s10 == transform_apply(s9, TRUE, TRUE, TRUE)
        s11 == select_all_deselect(s10)
        s12 == select_set(select_set(select_set(s11, gun_body), barrel), handle)
        s13 == set_active(s12, gun_body)
        s14 == object_join(s13)
    IN IF /\ Evaluated(s3) /\ Evaluated(s6) /\ Evaluated(s10) /\ Evaluated(s12)
       THEN set_name(s14, gun_body, name)
       ELSE s

\* create_seat(name, location): cushion and backrest written into one bmesh;
\* the object gets a location that is never applied
create_seat(s, name, location) ==
    LET b1 == bm_verts_all(bmesh_new,
                  << <<0 - 2000, 0 - 2000, 0>>, <<2000, 0 - 2000, 0>>, <<2000, 2000, 0>>, <<0 - 2000, 2000, 0>>,
                     <<0 - 2000, 0 - 2000, 800>>, <<2000, 0 - 2000, 800>>, <<2000, 2000, 800>>, <<0 - 2000, 2000, 800>> >>)
        b2 == bm_faces_all(b1,
                  << <<1, 2, 3, 4>>, <<8, 7, 6, 5>>, <<1, 5, 6, 2>>,
                     <<3, 7, 8, 4>>, <<1, 4, 8, 5>>, <<2, 6, 7, 3>> >>)
        b3 == bm_verts_all(b2,
                  << <<0 - 2000, 1500, 800>>, <<2000, 1500, 800>>, <<2000, 2000, 800>>, <<0 - 2000, 2000, 800>>,
                     <<0 - 1800, 1200, 5800>>, <<1800, 1200, 5800>>,
                     <<1800, 1800, 5800>>, <<0 - 1800, 1800, 5800>> >>)
        b4 == bm_faces_all(b3,
                  << <<9, 10, 14, 13>>, <<11, 12, 16, 15>>, <<10, 11, 15, 14>>,
                     <<12, 9, 13, 16>>, <<13, 14, 15, 16>> >>)
        obj == new_id(s)
        s1 == objects_new_link(s, name, <<BmeshPart(b4)>>)
    IN set_location(s1, obj, location)

\* Fault: clear_scene deletes nothing
clear_scene_keeps_all(s) == s

\* clear_scene(): select everything, delete the selection.  (Mesh data is
\* kept with the object that owns it, so the orphan sweep has nothing to do.)
clear_scene(s) == object_delete(select_all_select(s))

-----------------------------------------------------------------------------
(* The four build functions.  Each is cut into blocks, one per part, in    *)
(* source order; create_X(block, s, rt) is the scene after that block, rt  *)
(* being the function's local `root`.  The "t-molding" block is the call   *)
(* of the variant's T-molding builder, which the sweep actions carry out.  *)

\* The control-panel wedge create_cabinet writes inline (cp-shell)
cp_shell_bmesh ==
    LET b1 == bm_verts_all(bmesh_new,
                  << <<0 - 400, 0 - 2500, 9000>>, <<0 - 400, 2500, 9000>>,
                     <<0 - 2200, 2500, 7500>>, <<0 - 2200, 0 - 2500, 7500>>,
                     <<0 - 400, 0 - 2500, 8700>>, <<0 - 400, 2500, 8700>>,
                     <<0 - 2200, 2500, 7200>>, <<0 - 2200, 0 - 2500, 7200>> >>)
    IN bm_faces_all(b1,
           << <<1, 2, 3, 4>>, <<8, 7, 6, 5>>, <<1, 5, 6, 2>>,
              <<3, 7, 8, 4>>, <<1, 4, 8, 5>>, <<2, 6, 7, 3>> >>)

\* The blocks of create_cabinet, in source order
create_cabinet_blocks ==
    <<"root", "left", "right", "back", "top", "bottom", "front-kick",
      "marquee-box", "marquee", "bezel", "screen", "cp-shell", "joystick",
      "coin-door", "speaker", "t-molding", "screen-mock-vertical",
      "screen-mock-horizontal">>

\* Fault: the block's cube scaled with its y and z factors exchanged
cube_block_turned(s, rt, name, size, location, scale) ==
    LET s1 == primitive_cube_add(s, size, location)
        obj == s1.active
        s2 == set_name(s1, obj, name)
        s3 == set_scale(s2, obj, <<scale[1], scale[3], scale[2]>>)
        s4 == transform_apply(s3, TRUE, TRUE, TRUE)
    IN set_parent(s4, obj, rt)

\* An inline `primitive_cube_add; name; scale; transform_apply(scale=True);
\* parent = root` block
cube_block(s, rt, name, size, location, scale) ==
    LET s1 == primitive_cube_add(s, size, location)
        obj == s1.active
        s2 == set_name(s1, obj, name)
        s3 == set_scale(s2, obj, scale)
        s4 == transform_apply(s3, TRUE, TRUE, TRUE)
    IN set_parent(s4, obj, rt)

\* An inline `primitive_plane_add; name; scale; rotation_euler;
\* transform_apply(scale=True, rotation=True); parent = root` block
plane_block(s, rt, name, location, scale, a, b, c) ==
    LET s1 == primitive_plane_add(s, 10000, location)
        obj == s1.active
        s2 == set_name(s1, obj, name)
        s3 == set_scale(s2, obj, scale)
        s4 == set_rotation_euler(s3, obj, a, b, c)
        s5 == transform_apply(s4, TRUE, TRUE, TRUE)
    IN set_parent(s5, obj, rt)

\* `clear_scene(); empty_add(...); root = active_object; root.name = "cabinet-root"`
root_block(s) ==
    LET s1 == empty_add(clear_scene(s), Zero3)
    IN set_name(s1, s1.active, "cabinet-root")

\* `x = builder(...); x.parent = root` for a builder whose result is the
\* first object it creates
parent_first(s0, s1, rt) == set_parent(s1, new_id(s0), rt)

\* create_cabinet()
create_cabinet(block, s, rt) ==
    CASE block = "root" -> root_block(s)
      [] block = "left" -> parent_first(s, create_side_panel(s, "left", FALSE), rt)
      [] block = "right" -> parent_first(s, create_side_panel(s, "right", TRUE), rt)
      [] block = "back" ->
           parent_first(s, create_flat_panel(s, "back", 5000, 18500, 200, <<0 - 3900, 0, 9250>>), rt)
      [] block = "top" -> cube_block(s, rt, "top", 10000, <<0 - 2200, 0, 19400>>, <<3000, 5000, 200>>)
      [] block = "bottom" -> cube_block(s, rt, "bottom", 10000, <<0 - 2000, 0, 100>>, <<4000, 5000, 200>>)
      [] block = "front-kick" ->
           parent_first(s, create_flat_panel(s, "front-kick", 5000, 1800, 200, <<0 - 400, 0, 900>>), rt)
      [] block = "marquee-box" ->
           parent_first(s, create_flat_panel(s, "marquee-box", 5000, 1200, 1000, <<0 - 1200, 0, 18200>>), rt)
      [] block = "marquee" ->
           plane_block(s, rt, "marquee", <<0 - 600, 0, 18200>>, <<4800, 1000, 10000>>,
                       Angle(3, 0), Angle(0, 0 - 100), Angle(0, 0))
      [] block = "bezel" -> parent_first(s, create_bezel_with_cutout(s), rt)
      [] block = "screen" -> parent_first(s, create_screen(s), rt)
      [] block = "cp-shell" ->
           parent_first(s, objects_new_link(s, "cp-shell", <<BmeshPart(cp_shell_bmesh)>>), rt)
      [] block = "joystick" ->
           plane_block(s, rt, "joystick", <<0 - 800, 0, 8500>>, <<4800, 1800, 10000>>,
                       Angle(3, 300), Angle(0, 0), Angle(0, 0))
      [] block = "coin-door" ->
           parent_first(s, create_flat_panel(s, "coin-door", 2000, 1500, 200, <<0 - 400, 0, 3500>>), rt)
      [] block = "speaker" ->
           parent_first(s, create_flat_panel(s, "speaker", 5000, 800, 200, <<0 - 400, 0, 5500>>), rt)
      [] block = "screen-mock-vertical" ->
           cube_block(s, rt, "screen-mock-vertical", 100, <<0 - 600, 0, 13500>>, <<100, 2600, 3200>>)
      [] block = "screen-mock-horizontal" ->
           cube_block(s, rt, "screen-mock-horizontal", 100, <<0 - 600, 0, 13500>>, <<100, 3200, 2600>>)

\* str(n) for one digit
digit(n) ==
    CASE n = 0 -> "0" [] n = 1 -> "1" [] n = 2 -> "2" [] n = 3 -> "3" [] n = 4 -> "4"
      [] n = 5 -> "5" [] n = 6 -> "6" [] n = 7 -> "7" [] n = 8 -> "8" [] n = 9 -> "9"

\* Fault: f"leg-{i}", the legs numbered from 0
leg_name_from_zero(i) == "leg-" \o digit(i)

\* f"leg-{i+1}" for the loop index i of `for i, (x, y) in enumerate(leg_positions)`
leg_name(i) == "leg-" \o digit(i + 1)

\* leg_positions of create_cocktail_cabinet: (table_width/2 - 0.03, table_depth/2 - 0.03), ...
leg_positions ==
    << <<3500 - 300, 2750 - 300>>, <<0 - 3500 + 300, 2750 - 300>>,
       <<3500 - 300, 0 - 2750 + 300>>, <<0 - 3500 + 300, 0 - 2750 + 300>> >>

\* The blocks of create_cocktail_cabinet, in source order
create_cocktail_cabinet_blocks ==
    <<"root", "bezel", "screen", "screen-mock-horizontal", "screen-mock-vertical",
      "left", "right", "back", "front", "top", "bottom", "joystick", "joystick-2",
      "marquee", "coin-door", leg_name(0), leg_name(1), leg_name(2), leg_name(3),
      "t-molding", "speaker">>

\* create_cocktail_cabinet(): table_width 0.70, table_depth 0.55,
\* table_height 0.70, leg_height 0.60, panel_thickness 0.02
create_cocktail_cabinet(block, s, rt) ==
    CASE block = "root" -> root_block(s)
      [] block = "bezel" ->
           LET s1 == create_bezel_with_cutout_cocktail(s, "bezel", bezel_args_cocktail[1], bezel_args_cocktail[2],
                         bezel_args_cocktail[3], bezel_args_cocktail[4], bezel_args_cocktail[5])
               bezel == new_id(s)
               s2 == set_location(s1, bezel, <<0, 0, 7050>>)
           IN set_parent(s2, bezel, rt)
      [] block = "screen" ->
           LET s1 == primitive_plane_add(s, 10000, <<0, 0, 6900>>)
               screen == s1.active
               s2 == set_name(s1, screen, "screen")
               s3 == set_scale(s2, screen, <<4200, 3200, 10000>>)
               s4 == transform_apply(s3, TRUE, TRUE, TRUE)
           IN set_parent(s4, screen, rt)
      [] block = "screen-mock-horizontal" ->
           cube_block(s, rt, "screen-mock-horizontal", 100, <<0, 0, 6900>>, <<4200, 3200, 100>>)
      [] block = "screen-mock-vertical" ->
           cube_block(s, rt, "screen-mock-vertical", 100, <<0, 0, 6900>>, <<3200, 4200, 100>>)
      [] block = "left" ->
           parent_first(s, create_box(s, "left", <<200, 5500, 1000>>, <<0 - 3500, 0, 6500>>), rt)
      [] block = "right" ->
           parent_first(s, create_box(s, "right", <<200, 5500, 1000>>, <<3500, 0, 6500>>), rt)
      [] block = "back" ->
           parent_first(s, create_box(s, "back", <<7000, 200, 1000>>, <<0, 2750, 6500>>), rt)
      [] block = "front" ->
           parent_first(s, create_box(s, "front", <<7000, 200, 0 - 200>>, <<0, 0 - 2750, 7100>>), rt)
      [] block = "top" ->
           parent_first(s, create_box(s, "top", <<6800, 5300, 200>>, <<0, 0, 6850>>), rt)
      [] block = "bottom" ->
           parent_first(s, create_box(s, "bottom", <<6600, 5100, 200>>, <<0, 0, 6100>>), rt)
      [] block = "joystick" ->
           plane_block(s, rt, "joystick", <<0, 0 - 2150, 6500>>, <<3000, 800, 10000>>,
                       Angle(0, 400), Angle(0, 0), Angle(0, 0))
      [] block = "joystick-2" ->
           plane_block(s, rt, "joystick-2", <<0, 2150, 6500>>, <<3000, 800, 10000>>,
                       Angle(6, 0 - 400), Angle(0, 0), Angle(0, 0))
      [] block = "marquee" ->
           plane_block(s, rt, "marquee", <<3550, 0, 6500>>, <<1500, 800, 10000>>,
                       Angle(0, 0), Angle(3, 0), Angle(0, 0))
      [] block = "coin-door" ->
           parent_first(s, create_box(s, "coin-door", <<800, 250, 600>>, <<1500, 0 - 2770, 7000>>), rt)
      [] block \in {leg_name(i) : i \in 0..3} ->
           LET i == CHOOSE k \in 0..3 : leg_name(k) = block
               xy == leg_positions[i + 1]
           IN parent_first(s, create_box(s, leg_name(i), <<400, 400, 6000>>,
                                         <<xy[1], xy[2], 6000 \div 2>>), rt)
      [] block = "speaker" ->
           parent_first(s, create_box(s, "speaker", <<1500, 200, 800>>, <<0, 0 - 2750, 6600>>), rt)

\* `x = create_box(name, dims, loc); x.rotation_euler = (a, 0, 0);
\* bpy.ops.object.transform_apply(rotation=True); x.parent = root`
rotated_box_block(s, rt, name, dimensions, location, a) ==
    LET s1 == create_box(s, name, dimensions, location)
        obj == s1.active
        s2 == set_rotation_euler(s1, obj, a, Angle(0, 0), Angle(0, 0))
        s3 == transform_apply(s2, TRUE, TRUE, TRUE)
    IN set_parent(s3, obj, rt)

\* The blocks of create_driving_cabinet, in source order
create_driving_cabinet_blocks ==
    <<"root", "left", "right", "back", "top", "bottom", "dashboard", "marquee",
      "marquee-box", "bezel", "screen", "screen-mock-horizontal",
      "screen-mock-vertical", "steering-wheel", "steering-column", "pedals",
      "gear-shifter", "seat", "coin-door", "speaker", "front-kick", "t-molding">>

\* create_driving_cabinet()
create_driving_cabinet(block, s, rt) ==
    CASE block = "root" -> root_block(s)
      [] block = "left" -> parent_first(s, create_side_panel_driving(s, "left", FALSE), rt)
      [] block = "right" -> parent_first(s, create_side_panel_driving(s, "right", TRUE), rt)
      [] block = "back" -> parent_first(s, create_box(s, "back", <<200, 9800, 16000>>, <<0 - 8400, 0, 9000>>), rt)
      [] block = "top" -> parent_first(s, create_box(s, "top", <<7000, 9800, 200>>, <<0 - 4700, 0, 19400>>), rt)
      [] block = "bottom" -> parent_first(s, create_box(s, "bottom", <<8500, 9800, 200>>, <<0 - 4200, 0, 100>>), rt)
      [] block = "dashboard" ->
           rotated_box_block(s, rt, "dashboard", <<2500, 7000, 200>>, <<0 - 2700, 0, 7200>>, Angle(0, 800))
      [] block = "marquee" ->
           plane_block(s, rt, "marquee", <<0 - 1700, 0, 19000>>, <<9000, 1200, 10000>>,
                       Angle(3, 0), Angle(0, 0 - 150), Angle(0, 0))
      [] block = "marquee-box" -> parent_first(s, create_box(s, "marquee-box", <<1200, 9800, 1500>>, <<0 - 1900, 0, 18700>>), rt)
      [] block = "bezel" ->
           \* the bezel is linked, not added by an operator: transform_apply
           \* acts on whatever is selected at this point
           LET s1 == create_bezel_with_cutout_driving(s, "bezel", bezel_args_driving[1], bezel_args_driving[2],
                         bezel_args_driving[3], bezel_args_driving[4], bezel_args_driving[5])
               bezel == new_id(s)
               s2 == set_location(s1, bezel, <<0 - 3200, 0, 13000>>)
               s3 == set_rotation_euler(s2, bezel, Angle(0, 0), Angle(0, 0 - 250), Angle(0, 0))
               s4 == transform_apply(s3, TRUE, TRUE, TRUE)
           IN set_parent(s4, bezel, rt)
      [] block = "screen" ->
           plane_block(s, rt, "screen", <<0 - 3100, 0, 13000>>, <<7200, 4200, 10000>>,
                       Angle(3, 0), Angle(0, 0 - 250), Angle(0, 0))
      [] block = "screen-mock-horizontal" ->
           cube_block(s, rt, "screen-mock-horizontal", 100, <<0 - 3100, 0, 13000>>, <<100, 7200, 4200>>)
      [] block = "screen-mock-vertical" ->
           cube_block(s, rt, "screen-mock-vertical", 100, <<0 - 3100, 0, 13000>>, <<100, 4200, 7200>>)
      [] block = "steering-wheel" ->
           parent_first(s, create_steering_wheel(s, "steering-wheel", <<0 - 1500, 0, 8500>>), rt)
      [] block = "steering-column" ->
           rotated_box_block(s, rt, "steering-column", <<800, 1000, 2500>>, <<0 - 2000, 0, 7000>>, Angle(0, 500))
      [] block = "pedals" -> create_pedals(s, rt)
      [] block = "gear-shifter" ->
           parent_first(s, create_gear_shifter(s, "gear-shifter", <<0 - 2500, 2500, 5500>>), rt)
      [] block = "seat" -> parent_first(s, create_seat(s, "seat", <<0 - 5500, 0, 3000>>), rt)
      [] block = "coin-door" -> parent_first(s, create_box(s, "coin-door", <<200, 1500, 1000>>, <<0 - 500, 3000, 3500>>), rt)
      [] block = "speaker" -> parent_first(s, create_box(s, "speaker", <<200, 3000, 800>>, <<0 - 2200, 0, 16500>>), rt)
      [] block = "front-kick" ->
           rotated_box_block(s, rt, "front-kick", <<1500, 6000, 200>>, <<0 - 700, 0, 2500>>, Angle(0, 1200))

\* The blocks of create_lightgun_cabinet, in source order
create_lightgun_cabinet_blocks ==
    <<"root", "left", "right", "back", "top", "bottom", "front", "front-lower",
      "marquee", "marquee-box", "bezel", "screen", "screen-mock-horizontal",
      "screen-mock-vertical", "gun", "gun2", "gun-shelf", "coin-door", "speaker",
      "pedal", "t-molding">>

\* create_lightgun_cabinet()
create_lightgun_cabinet(block, s, rt) ==
    CASE block = "root" -> root_block(s)
      [] block = "left" -> parent_first(s, create_side_panel_lightgun(s, "left", FALSE), rt)
      [] block = "right" -> parent_first(s, create_side_panel_lightgun(s, "right", TRUE), rt)
      [] block = "back" -> parent_first(s, create_box(s, "back", <<200, 7800, 20000>>, <<0 - 5400, 0, 10000>>), rt)
      [] block = "top" -> parent_first(s, create_box(s, "top", <<5000, 7800, 200>>, <<0 - 2700, 0, 21400>>), rt)
      [] block = "bottom" -> parent_first(s, create_box(s, "bottom", <<5500, 7800, 200>>, <<0 - 2700, 0, 100>>), rt)
      [] block = "front" -> parent_first(s, create_box(s, "front", <<200, 7800, 5000>>, <<0 - 1400, 0, 12500>>), rt)
      [] block = "front-lower" -> parent_first(s, create_box(s, "front-lower", <<200, 7800, 5500>>, <<0 - 900, 0, 6000>>), rt)
      [] block = "marquee" ->
           plane_block(s, rt, "marquee", <<0 - 400, 0, 20200>>, <<7500, 1200, 10000>>,
                       Angle(3, 0), Angle(0, 0 - 100), Angle(0, 0))
      [] block = "marquee-box" -> parent_first(s, create_box(s, "marquee-box", <<1000, 7800, 1500>>, <<0 - 800, 0, 20200>>), rt)
      [] block = "bezel" ->
           \* as in the driving cabinet: transform_apply acts on the selection
           LET s1 == create_bezel_with_cutout_lightgun(s, "bezel", bezel_args_lightgun[1], bezel_args_lightgun[2],
                         bezel_args_lightgun[3], bezel_args_lightgun[4], bezel_args_lightgun[5])
               bezel == new_id(s)
               s2 == set_location(s1, bezel, <<0 - 1300, 0, 12500>>)
               s3 == set_rotation_euler(s2, bezel, Angle(0, 0), Angle(0, 0 - 150), Angle(0, 0))
               s4 == transform_apply(s3, TRUE, TRUE, TRUE)
           IN set_parent(s4, bezel, rt)
      [] block = "screen" ->
           plane_block(s, rt, "screen", <<0 - 1200, 0, 12500>>, <<5600, 4000, 10000>>,
                       Angle(3, 0), Angle(0, 0 - 150), Angle(0, 0))
      [] block = "screen-mock-horizontal" ->
           cube_block(s, rt, "screen-mock-horizontal", 100, <<0 - 1200, 0, 12500>>, <<100, 5600, 4000>>)
      [] block = "screen-mock-vertical" ->
           cube_block(s, rt, "screen-mock-vertical", 100, <<0 - 1200, 0, 12500>>, <<100, 4000, 5600>>)
      [] block = "gun" -> parent_first(s, create_gun(s, "gun", <<0 - 800, 0 - 1800, 8500>>), rt)
      [] block = "gun2" -> parent_first(s, create_gun(s, "gun2", <<0 - 800, 1800, 8500>>), rt)
      [] block = "gun-shelf" -> parent_first(s, create_box(s, "gun-shelf", <<1200, 7800, 200>>, <<0 - 1000, 0, 9000>>), rt)
      [] block = "coin-door" -> parent_first(s, create_box(s, "coin-door", <<200, 1500, 1200>>, <<0 - 800, 0, 2500>>), rt)
      [] block = "speaker" -> parent_first(s, create_box(s, "speaker", <<200, 4000, 800>>, <<0 - 800, 0, 18500>>), rt)
      [] block = "pedal" -> parent_first(s, create_box(s, "pedal", <<1500, 2500, 300>>, <<1500, 0, 150>>), rt)

-----------------------------------------------------------------------------
(* main() and export_glb(), the same in the four scripts.                  *)

\* argv.index("--") for a sequence that holds "--" (1-based here)
index(argv, x) == CHOOSE i \in 1..Len(argv) : argv[i] = x /\ \A j \in 1..(i - 1) : argv[j] # x

\* `if "--" in argv: argv = argv[argv.index("--") + 1:] else: argv = []`
script_args(argv) ==
    IF "--" \in Range(argv) THEN SubSeq(argv, index(argv, "--") + 1, Len(argv)) ELSE <<>>

\* The path each script's main falls back to
default_output_path(v) ==
    CASE v = "Upright" -> "/tmp/arcade_cabinet_template.glb"
      [] v = "Cocktail" -> "/tmp/cocktail_cabinet_template.glb"
      [] v = "Driving" -> "/tmp/driving_cabinet_template.glb"
      [] v = "LightGun" -> "/tmp/lightgun_cabinet_template.glb"

\* A main that ignores its argument
main_output_path_default(v, argv) == default_output_path(v)

\* `if len(argv) < 1: output_path = <default> else: output_path = argv[0]`
main_output_path(v, argv) ==
    IF Len(script_args(argv)) < 1 THEN default_output_path(v) ELSE script_args(argv)[1]

\* export_glb(filepath): one call of the host's glTF exporter
export_glb(filepath) ==
    [filepath |-> filepath, export_format |-> "GLB", use_selection |-> FALSE,
     export_apply |-> TRUE]

\* The block list of the variant's build function
blocks_of(v) ==
    CASE v = "Upright" -> create_cabinet_blocks
      [] v = "Cocktail" -> create_cocktail_cabinet_blocks
      [] v = "Driving" -> create_driving_cabinet_blocks
      [] v = "LightGun" -> create_lightgun_cabinet_blocks

-----------------------------------------------------------------------------
(* A script run: the host starts the script in some scene.                 *)

Variants == {"Upright", "Cocktail", "Driving", "LightGun"}

\* The host's factory scene: a cube (selected and active), a light, a camera
startup_scene ==
    Scene([o \in 1..3 |->
              CASE o = 1 -> NewObject("Cube", "MESH",
                                      <<Part("cube", <<>>, <<>>, [NoParams EXCEPT !.size = 20000])>>,
                                      Zero3, TRUE)
                [] o = 2 -> NewObject("Light", "LIGHT", <<>>, <<40762, 10055, 59039>>, FALSE)
                [] o = 3 -> NewObject("Camera", "CAMERA", <<>>, <<73589, 0 - 69258, 49583>>, FALSE)],
          1, 4)

\* A scene that already holds a cabinet of an earlier run
used_scene ==
    Scene([o \in 1..3 |->
              CASE o = 1 -> NewObject("cabinet-root", "EMPTY", <<>>, Zero3, FALSE)
                [] o = 2 -> [NewObject("left", "MESH", <<BmeshPart(bmesh_new)>>, Zero3, FALSE)
                                EXCEPT !.parent = 1]
                [] o = 3 -> [NewObject("t-molding", "MESH", <<BmeshPart(bmesh_new)>>, Zero3, TRUE)
                                EXCEPT !.parent = 1]],
          3, 4)

empty_scene == Scene([o \in {} |-> NewObject("", "EMPTY", <<>>, Zero3, FALSE)], 0, 1)

\* Command lines the host hands the script: without "--", with "--" and
\* nothing after it, with one path, with a path and a further argument
CommandLines ==
    { <<"blender", "--background", "--python", "script.py">>,
      <<"blender", "--background", "--python", "script.py", "--">>,
      <<"blender", "--background", "--python", "script.py", "--", "out.glb">>,
      <<"blender", "--background", "--python", "script.py", "--", "cab.glb", "--">> }

\* Values of the variables a run does not use
NoResult == [obj |-> 0, raised |-> ""]

NoCall == bz_args = <<>> /\ result = NoResult

NoSweep ==
    /\ sw_path = <<>> /\ sw_rest = <<>> /\ sw_kind = "" /\ sw_i = 0
    /\ segments = <<>> /\ bm = bmesh_new

\* No second build
NoOther == [pc |-> "idle", root |-> 0, made |-> {}]

\* No build before this one
NoPrevious == [variant |-> "", nodes |-> <<>>]

NoScript ==
    /\ variant = "" /\ step = 0 /\ root = 0
    /\ sys_argv = <<>> /\ output_path = "" /\ exported = <<>>
    /\ builds = 0
    /\ other = NoOther
    /\ previous = NoPrevious
    /\ order = <<>>

sceneVars == <<objects, active, next_id>>

argVars == <<variant, sys_argv, builds, other, previous, order>>

sweepVars == <<sw_path, sw_rest, sw_kind, sw_i, segments, bm>>

Init ==
    /\ \E s \in {startup_scene, used_scene} :
          objects = s.objects /\ active = s.active /\ next_id = s.next_id
    /\ variant \in Variants
    /\ sys_argv \in CommandLines
    /\ pc = "main" /\ step = 0 /\ root = 0
    /\ output_path = "" /\ exported = <<>>
    /\ builds = 0
    /\ other = NoOther
    /\ previous = NoPrevious
    /\ order = blocks_of(variant)
    /\ NoCall /\ NoSweep

\* main(), up to the call of the build function
Main ==
    /\ pc = "main"
    /\ output_path' = main_output_path(variant, sys_argv)
    /\ pc' = "build" /\ step' = 1
    /\ builds' = builds + 1
    /\ UNCHANGED <<sceneVars, variant, sys_argv, other, previous, order, root,
                   exported, bz_args, result, sweepVars>>

\* Where the build function stands after its block `step`
after_block(v) == IF step = Len(order) THEN "export" ELSE "build"

\* One block of the running build function, whose scene after is s
BuildStep(v, s) ==
    /\ objects' = s.objects /\ active' = s.active /\ next_id' = s.next_id
    /\ root' = IF order[step] = "root" THEN s.active ELSE root
    /\ step' = step + 1
    /\ pc' = after_block(v)
    /\ UNCHANGED <<argVars, output_path, exported, bz_args, result, sweepVars>>

CreateCabinet ==
    /\ pc = "build" /\ variant = "Upright"
    /\ order[step] # "t-molding"
    /\ BuildStep("Upright",
                 create_cabinet(order[step],
                                Scene(objects, active, next_id), root))

CreateCocktailCabinet ==
    /\ pc = "build" /\ variant = "Cocktail"
    /\ order[step] # "t-molding"
    /\ BuildStep("Cocktail",
                 create_cocktail_cabinet(order[step],
                                         Scene(objects, active, next_id), root))

CreateDrivingCabinet ==
    /\ pc = "build" /\ variant = "Driving"
    /\ order[step] # "t-molding"
    /\ BuildStep("Driving",
                 create_driving_cabinet(order[step],
                                        Scene(objects, active, next_id), root))

CreateLightgunCabinet ==
    /\ pc = "build" /\ variant = "LightGun"
    /\ order[step] # "t-molding"
    /\ BuildStep("LightGun",
                 create_lightgun_cabinet(order[step],
                                         Scene(objects, active, next_id), root))

\* The build function calls its T-molding builder: create_t_molding(),
\* create_t_molding_cocktail(), create_t_molding_driving() or
\* create_t_molding_lightgun(), up to the first loop (`segments = []`,
\* `bm = bmesh.new()`)
CreateTMolding ==
    /\ pc = "build" /\ order[step] = "t-molding"
    /\ sw_kind' = t_molding_kind(variant)
    /\ sw_path' = Head(t_molding_paths(variant))
    /\ sw_rest' = Tail(t_molding_paths(variant))
    /\ sw_i' = 0 /\ segments' = <<>> /\ bm' = bmesh_new
    /\ result' = NoResult
    /\ pc' = "sweep"
    /\ UNCHANGED <<sceneVars, argVars, step, root, output_path, exported, bz_args>>

\* One pass of a tube builder's `for i in range(len(path) - 1)`
TubeSegment ==
    /\ pc = "sweep" /\ sw_kind = "tube" /\ sw_i < Len(sw_path) - 1
    /\ LET st == tube_loop_body([scene |-> Scene(objects, active, next_id),
                                 segments |-> segments],
                                sw_path, sw_i, tube_radius(variant))
       IN /\ objects' = st.scene.objects /\ active' = st.scene.active
          /\ next_id' = st.scene.next_id
          /\ segments' = st.segments
    /\ sw_i' = sw_i + 1
    /\ UNCHANGED <<argVars, pc, step, root, output_path, exported, bz_args, result,
                   sw_path, sw_rest, sw_kind, bm>>

\* One add_strip call of the upright's builder (width 0.012, depth 0.008)
AddStrip ==
    /\ pc = "sweep" /\ sw_kind = "strip" /\ sw_i < Len(sw_path) - 1
    /\ bm' = add_strip(bm, sw_path[sw_i + 1], sw_path[sw_i + 2], 120, 80)
    /\ sw_i' = sw_i + 1
    /\ UNCHANGED <<sceneVars, argVars, pc, step, root, output_path, exported, bz_args,
                   result, sw_path, sw_rest, sw_kind, segments>>

\* A loop has gone through its path and the builder has another one
NextPath ==
    /\ pc = "sweep" /\ sw_i >= Len(sw_path) - 1 /\ sw_rest # <<>>
    /\ sw_path' = Head(sw_rest) /\ sw_rest' = Tail(sw_rest)
    /\ sw_i' = 0
    /\ UNCHANGED <<sceneVars, argVars, pc, step, root, output_path, exported, bz_args,
                   result, sw_kind, segments, bm>>

\* The tube builders' tail, after the loops: join and return
TubeJoin ==
    /\ pc = "sweep" /\ sw_kind = "tube"
    /\ sw_i >= Len(sw_path) - 1 /\ sw_rest = <<>>
    /\ LET made == join_segments(Scene(objects, active, next_id), segments)
       IN /\ objects' = made.scene.objects /\ active' = made.scene.active
          /\ next_id' = made.scene.next_id
          /\ result' = [obj |-> made.result, raised |-> ""]
    /\ pc' = "returned"
    /\ UNCHANGED <<argVars, step, root, output_path, exported, bz_args, sweepVars>>

\* The upright builder's tail: bm.to_mesh(mesh), link the object, return it
StripLink ==
    /\ pc = "sweep" /\ sw_kind = "strip"
    /\ sw_i >= Len(sw_path) - 1 /\ sw_rest = <<>>
    /\ LET s == Scene(objects, active, next_id)
           s1 == objects_new_link(s, "t-molding", <<BmeshPart(bm)>>)
       IN /\ objects' = s1.objects /\ active' = s1.active /\ next_id' = s1.next_id
          /\ result' = [obj |-> new_id(s), raised |-> ""]
    /\ pc' = "returned"
    /\ UNCHANGED <<argVars, step, root, output_path, exported, bz_args, sweepVars>>

\* Back in the build function: `if t_molding: t_molding.parent = root`
TMoldingParent ==
    /\ pc = "returned" /\ variant \in Variants
    /\ LET s == Scene(objects, active, next_id)
           s1 == IF result.obj # 0 THEN set_parent(s, result.obj, root) ELSE s
       IN objects' = s1.objects /\ active' = s1.active /\ next_id' = s1.next_id
    /\ step' = step + 1
    /\ pc' = after_block(variant)
    /\ sw_path' = <<>> /\ sw_rest' = <<>> /\ sw_kind' = "" /\ sw_i' = 0
    /\ segments' = <<>> /\ bm' = bmesh_new
    /\ result' = NoResult
    /\ UNCHANGED <<argVars, root, output_path, exported, bz_args>>

\* main()'s last statement: export_glb(output_path)
ExportGlb ==
    /\ pc = "export"
    /\ exported' = Append(exported, export_glb(output_path))
    /\ pc' = "done"
    /\ UNCHANGED <<sceneVars, argVars, step, root, output_path, bz_args, result, sweepVars>>

Next ==
    \/ Main
    \/ CreateCabinet
    \/ CreateCocktailCabinet
    \/ CreateDrivingCabinet
    \/ CreateLightgunCabinet
    \/ CreateTMolding
    \/ TubeSegment
    \/ AddStrip
    \/ NextPath
    \/ TubeJoin
    \/ StripLink
    \/ TMoldingParent
    \/ ExportGlb

Spec == Init /\ [][Next]_vars

-----------------------------------------------------------------------------
(* A script run in which a host call may raise.                            *)
(* No script has a try statement: an exception raised by a host call of a  *)
(* part builder leaves the build function and main(), and ends the script  *)
(* with the statements after it not run.                                   *)

\* Fault: main goes on to export_glb after a failed build
BuildRaises_caught ==
    /\ pc \in {"build", "sweep", "returned"}
    /\ result' = [obj |-> 0, raised |-> "RuntimeError"]
    /\ pc' = "export"
    /\ UNCHANGED <<sceneVars, argVars, step, root, output_path, exported, bz_args,
                   sweepVars>>

\* A host call in the block the build function is in raises
BuildRaises ==
    /\ pc \in {"build", "sweep", "returned"}
    /\ result' = [obj |-> 0, raised |-> "RuntimeError"]
    /\ pc' = "aborted"
    /\ UNCHANGED <<sceneVars, argVars, step, root, output_path, exported, bz_args,
                   sweepVars>>

FailSpec == Init /\ [][Next \/ BuildRaises]_vars

-----------------------------------------------------------------------------
(* Build functions called one after another in one process, on the scene   *)
(* the one before left.                                                    *)

MaxBuilds == 2

\* What a build leaves to be compared with another: each node's name, mesh
\* data, local transform and parent (by name), in creation order
nodes_in_order(s) ==
    LET ids == SortedIds(DOMAIN s.objects)
        node(o) == [name |-> o.name, mesh |-> o.mesh, xf |-> Xf(o),
                    parent |-> IF o.parent \in DOMAIN s.objects
                               THEN s.objects[o.parent].name ELSE ""]
    IN [i \in 1..Len(ids) |-> node(s.objects[ids[i]])]

\* Once a build function has returned (and main may have exported), a build
\* function is called again: create_cabinet(), create_cocktail_cabinet(),
\* create_driving_cabinet() or create_lightgun_cabinet()
BuildAgain ==
    /\ pc \in {"export", "done"}
    /\ builds < MaxBuilds
    /\ \E v \in Variants : variant' = v /\ order' = blocks_of(v)
    /\ builds' = builds + 1
    /\ previous' = [variant |-> variant,
                    nodes |-> nodes_in_order(Scene(objects, active, next_id))]
    /\ pc' = "build" /\ step' = 1 /\ root' = 0
    /\ UNCHANGED <<sceneVars, sys_argv, other, output_path, exported, bz_args,
                   result, sweepVars>>

SequenceSpec == Init /\ [][Next \/ BuildAgain]_vars

-----------------------------------------------------------------------------
(* A build function with two of its part blocks exchanged, run after the   *)
(* function as written.  Every block after the first uses the function's   *)
(* local `root` and nothing else of the function, so any two of them can   *)
(* change places.                                                          *)

\* The block list with blocks i and j exchanged
exchanged(blocks, i, j) ==
    [k \in 1..Len(blocks) |->
        IF k = i THEN blocks[j] ELSE IF k = j THEN blocks[i] ELSE blocks[k]]

\* The build function as written has returned; the same function is called
\* with two of its blocks exchanged
BuildExchanged ==
    /\ pc = "export" /\ builds = 1
    /\ \E i \in 2..Len(order) : \E j \in (i + 1)..Len(order) :
          order' = exchanged(order, i, j)
    /\ builds' = builds + 1
    /\ previous' = [variant |-> variant,
                    nodes |-> nodes_in_order(Scene(objects, active, next_id))]
    /\ pc' = "build" /\ step' = 1 /\ root' = 0
    /\ UNCHANGED <<sceneVars, variant, sys_argv, other, output_path, exported,
                   bz_args, result, sweepVars>>

InitExchanged ==
    /\ objects = startup_scene.objects /\ active = startup_scene.active
    /\ next_id = startup_scene.next_id
    /\ variant \in Variants
    /\ sys_argv = <<"blender", "--background", "--python", "script.py">>
    /\ pc = "main" /\ step = 0 /\ root = 0
    /\ output_path = "" /\ exported = <<>>
    /\ builds = 0
    /\ other = NoOther
    /\ previous = NoPrevious
    /\ order = blocks_of(variant)
    /\ NoCall /\ NoSweep

ExchangedSpec == InitExchanged /\ [][Next \/ BuildExchanged]_vars

-----------------------------------------------------------------------------
(* Two builds whose statements interleave in one host.  The build of the   *)
(* script run goes block by block as above.  The second build is           *)
(* create_lightgun_cabinet(), followed from its clear_scene() to the end   *)
(* of its first part, while the script's build is under way.  Both work on *)
(* the host's one scene, selection and active object.  A reference to an   *)
(* object the host has removed raises ReferenceError where it is used.     *)

\* The script's build can carry out its next step: the root it parents the
\* part to, the T-molding object and the segments it joins are still there
BuildCanGoOn ==
    CASE pc = "build" ->
           \/ order[step] \in {"root", "t-molding"}
           \/ root \in DOMAIN objects
      [] pc = "returned" ->
           \/ result.obj = 0
           \/ {root, result.obj} \subseteq DOMAIN objects
      [] pc = "sweep" ->
           \/ ~(sw_kind = "tube" /\ sw_i >= Len(sw_path) - 1 /\ sw_rest = <<>>)
           \/ Range(segments) \subseteq DOMAIN objects
      [] OTHER -> TRUE

\* The script's build uses an object the second build's clear_scene removed
BuildRaisesReferenceError ==
    /\ pc \in {"build", "sweep", "returned"}
    /\ ~BuildCanGoOn
    /\ result' = [obj |-> 0, raised |-> "ReferenceError"]
    /\ pc' = "aborted"
    /\ UNCHANGED <<sceneVars, argVars, step, root, output_path, exported, bz_args,
                   sweepVars>>

\* The script's build function has been called and has not returned
Building == pc \in {"main", "build", "sweep", "returned"}

\* A step of the second build, whose scene after is s, taken while the
\* script's build is under way
OtherStep(s, next_pc, rt, created) ==
    /\ Building
    /\ objects' = s.objects /\ active' = s.active /\ next_id' = s.next_id
    /\ other' = [pc |-> next_pc, root |-> rt, made |-> other.made \cup created]
    /\ UNCHANGED <<variant, sys_argv, builds, previous, order, pc, step, root,
                   output_path, exported, bz_args, result, sweepVars>>

\* create_lightgun_cabinet(): clear_scene()
OtherClearScene ==
    /\ other.pc = "clear"
    /\ OtherStep(clear_scene(Scene(objects, active, next_id)), "empty_add", 0, {})

\* bpy.ops.object.empty_add(type='PLAIN_AXES', location=(0, 0, 0))
OtherEmptyAdd ==
    /\ other.pc = "empty_add"
    /\ OtherStep(empty_add(Scene(objects, active, next_id), Zero3), "root", 0,
                 {next_id})

\* root = bpy.context.active_object; root.name = "cabinet-root";
\* left = create_side_panel_lightgun("left", is_right=False); left.parent = root.
\* (Some object is active: an *_add operator has run since the last
\* clear_scene.)  The second build is followed no further.
OtherRootAndLeft ==
    /\ other.pc = "root"
    /\ active # 0
    /\ LET s1 == set_name(Scene(objects, active, next_id), active, "cabinet-root")
       IN OtherStep(create_lightgun_cabinet("left", s1, active), "paused", active,
                    {next_id})

NextInterleaved ==
    \/ BuildCanGoOn /\ Next
    \/ BuildRaisesReferenceError
    \/ OtherClearScene
    \/ OtherEmptyAdd
    \/ OtherRootAndLeft

InitInterleaved ==
    /\ objects = startup_scene.objects /\ active = startup_scene.active
    /\ next_id = startup_scene.next_id
    /\ variant \in Variants
    /\ sys_argv = <<"blender", "--background", "--python", "script.py">>
    /\ pc = "main" /\ step = 0 /\ root = 0
    /\ output_path = "" /\ exported = <<>>
    /\ builds = 0
    /\ other = [pc |-> "clear", root |-> 0, made |-> {}]
    /\ previous = NoPrevious
    /\ order = blocks_of(variant)
    /\ NoCall /\ NoSweep

InterleavedSpec == InitInterleaved /\ [][NextInterleaved]_vars

-----------------------------------------------------------------------------
(* A direct call of a cutout-panel builder, in an empty scene.             *)

MaxBezelSize == 3

\* Widths and heights a call is made with, in steps of 0.1 m
BezelSizes == {1000 * k : k \in 1..MaxBezelSize}

\* Argument tuples <<outer_w, outer_h, cutout_w, cutout_h, thickness>>: every
\* combination of the sizes, and the tuples the build functions pass
BezelArgs ==
    {<<ow, oh, cw, ch, 100>> : ow \in BezelSizes, oh \in BezelSizes,
                               cw \in BezelSizes, ch \in BezelSizes}
    \cup {bezel_args_cocktail, bezel_args_driving, bezel_args_lightgun}

BezelCalls ==
    {[fn |-> "upright", args |-> bezel_args_upright]}
    \cup [fn : {"cocktail", "driving", "lightgun"}, args : BezelArgs]

InitBezel ==
    /\ objects = empty_scene.objects /\ active = 0 /\ next_id = 1
    /\ bz_args \in BezelCalls
    /\ result = NoResult
    /\ pc = "call"
    /\ NoScript /\ NoSweep

\* The call returns the object the builder linked; no builder has a raise
\* statement, and the 16 faces are on distinct vertex handles.
BezelReturn(s) ==
    /\ objects' = s.objects /\ active' = s.active /\ next_id' = s.next_id
    /\ result' = [obj |-> new_id(Scene(objects, active, next_id)), raised |-> ""]
    /\ pc' = "returned"
    /\ UNCHANGED <<argVars, step, root, output_path, exported, bz_args, sweepVars>>

BezelUpright ==
    /\ pc = "call" /\ bz_args.fn = "upright"
    /\ BezelReturn(create_bezel_with_cutout(Scene(objects, active, next_id)))

BezelCocktail ==
    /\ pc = "call" /\ bz_args.fn = "cocktail"
    /\ BezelReturn(create_bezel_with_cutout_cocktail(
                       Scene(objects, active, next_id), "bezel", bz_args.args[1],
                       bz_args.args[2], bz_args.args[3], bz_args.args[4], bz_args.args[5]))

BezelDriving ==
    /\ pc = "call" /\ bz_args.fn = "driving"
    /\ BezelReturn(create_bezel_with_cutout_driving(
                       Scene(objects, active, next_id), "bezel", bz_args.args[1],
                       bz_args.args[2], bz_args.args[3], bz_args.args[4], bz_args.args[5]))

BezelLightgun ==
    /\ pc = "call" /\ bz_args.fn = "lightgun"
    /\ BezelReturn(create_bezel_with_cutout_lightgun(
                       Scene(objects, active, next_id), "bezel", bz_args.args[1],
                       bz_args.args[2], bz_args.args[3], bz_args.args[4], bz_args.args[5]))

NextBezel ==
    \/ BezelUpright
    \/ BezelCocktail
    \/ BezelDriving
    \/ BezelLightgun

BezelSpec == InitBezel /\ [][NextBezel]_vars

-----------------------------------------------------------------------------
(* A sweep on its own over an arbitrary path, in an empty scene: the tube  *)
(* builders' loop and tail, or one add_strip call per consecutive pair and *)
(* the upright builder's tail.                                             *)

MaxK == 4

\* Waypoints 0.5 mm apart (below the threshold), exactly 1 mm apart (at the
\* threshold), equal (duplicates), and far apart, vertically and not
SweepPoints == {<<0, 0, 0>>, <<5, 0, 0>>, <<10, 0, 0>>, <<0, 0, 3000>>}

SweepPaths == UNION {[1..k -> SweepPoints] : k \in 2..MaxK}

InitSweep ==
    /\ objects = empty_scene.objects /\ active = 0 /\ next_id = 1
    /\ sw_kind \in {"tube", "strip"}
    /\ sw_path \in SweepPaths /\ sw_rest = <<>>
    /\ sw_i = 0 /\ segments = <<>> /\ bm = bmesh_new
    /\ pc = "sweep"
    /\ NoScript /\ NoCall

NextSweep ==
    \/ TubeSegment
    \/ AddStrip
    \/ TubeJoin
    \/ StripLink

SweepSpec == InitSweep /\ [][NextSweep]_vars

-----------------------------------------------------------------------------
(* The profile extrusion on its own, over an arbitrary profile, in an      *)
(* empty scene: the body of create_side_panel with its profile_2d replaced *)
(* by the profile of the call.                                             *)

MaxProfileLen == 4

ProfilePoints == {<<0, 0>>, <<0, 1500>>, <<0 - 4000, 0>>}

Profiles == UNION {[1..k -> ProfilePoints] : k \in 0..MaxProfileLen}

InitProfile ==
    /\ objects = empty_scene.objects /\ active = 0 /\ next_id = 1
    /\ bz_args \in [fn : {"side_panel"}, args : Profiles, is_right : BOOLEAN]
    /\ result = NoResult
    /\ pc = "call"
    /\ NoScript /\ NoSweep

\* The builder's body: the two rings, the two caps, the side faces; then
\* bm.to_mesh, objects.new, link, obj.location.  A ValueError of
\* bm.faces.new leaves the builder before anything is linked.
ExtrudeProfile ==
    /\ pc = "call" /\ bz_args.fn = "side_panel"
    /\ LET thickness == 200
           b == extrude_profile(bz_args.args,
                     IF bz_args.is_right THEN thickness \div 2 ELSE 0 - (thickness \div 2),
                     IF bz_args.is_right THEN 0 - (thickness \div 2) ELSE thickness \div 2)
           s == Scene(objects, active, next_id)
           s1 == set_location(objects_new_link(s, "left", <<BmeshPart(b)>>), new_id(s),
                              <<0, IF bz_args.is_right THEN 2500 ELSE 0 - 2500, 0>>)
       IN /\ bm' = b
          /\ IF b.raised
             THEN /\ UNCHANGED sceneVars
                  /\ result' = [obj |-> 0, raised |-> "ValueError"]
             ELSE /\ objects' = s1.objects /\ active' = s1.active
                  /\ next_id' = s1.next_id
                  /\ result' = [obj |-> new_id(s), raised |-> ""]
    /\ pc' = "returned"
    /\ UNCHANGED <<argVars, step, root, output_path, exported, bz_args, sw_path,
                   sw_rest, sw_kind, sw_i, segments>>

ProfileSpec == InitProfile /\ [][ExtrudeProfile]_vars

-----------------------------------------------------------------------------
(* Properties of a script run (specification Spec).                        *)

\* The build function has returned
Completed == pc \in {"export", "done"}

NodeNames == {objects[o].name : o \in DOMAIN objects}

HasNode(n) == n \in NodeNames

NodesNamed(n) == {o \in DOMAIN objects : objects[o].name = n}

\* The node a parent chain ends at, following at most `fuel` links
RECURSIVE ChainEnd(_, _)
ChainEnd(o, fuel) ==
    IF fuel = 0 \/ objects[o].parent = 0 \/ objects[o].parent \notin DOMAIN objects
    THEN o
    ELSE ChainEnd(objects[o].parent, fuel - 1)

\* C1: after any of the four builds has completed, exactly one node is named
\* cabinet-root, it has no parent, and every other node has a parent and a
\* parent chain that ends at cabinet-root.
C1_SingleRoot ==
    Completed =>
        /\ Cardinality(NodesNamed("cabinet-root")) = 1
        /\ \A r \in NodesNamed("cabinet-root") :
              /\ objects[r].parent = 0
              /\ r = root
              /\ \A o \in (DOMAIN objects) \ {r} :
                    /\ objects[o].parent \in DOMAIN objects
                    /\ ChainEnd(o, Cardinality(DOMAIN objects)) = r

\* A completed driving cabinet built in a scene that held an earlier
\* cabinet: it has parts joined from sub-primitives (the steering wheel)
C1_Witness ==
    /\ pc = "done" /\ variant = "Driving"
    /\ Cardinality(DOMAIN objects) > 20
    /\ \E o \in DOMAIN objects :
          objects[o].name = "steering-wheel" /\ Len(objects[o].mesh) = 5
                                             /\ objects[o].parent = root

RequiredNames ==
    {"left", "right", "back", "top", "bottom", "bezel", "screen",
     "screen-mock-horizontal", "screen-mock-vertical", "marquee", "coin-door",
     "speaker", "t-molding"}

\* C2: the completed scene of each of the four variants has a node with each
\* of the thirteen required names.
C2_RequiredNames == Completed => \A n \in RequiredNames : HasNode(n)

C2_Witness ==
    /\ pc = "export" /\ variant = "Cocktail"
    /\ RequiredNames \subseteq NodeNames
    /\ Cardinality(NodeNames) = Cardinality(DOMAIN objects)

\* C3: the completed Driving scene has nodes named steering-wheel, gas-pedal,
\* brake-pedal, gear-shifter, seat and dashboard; the completed LightGun scene
\* has nodes named gun, gun2, gun-shelf and pedal.
C3_VariantParts ==
    /\ (Completed /\ variant = "Driving") =>
          \A n \in {"steering-wheel", "gas-pedal", "brake-pedal", "gear-shifter",
                    "seat", "dashboard"} : HasNode(n)
    /\ (Completed /\ variant = "LightGun") =>
          \A n \in {"gun", "gun2", "gun-shelf", "pedal"} : HasNode(n)

C3_Witness ==
    /\ pc = "done" /\ variant = "LightGun"
    /\ HasNode("gun2") /\ HasNode("pedal")
    /\ exported # <<>>

\* The nodes whose name denotes a steering wheel or a pedal
SteeringNodes == {n \in NodeNames : Contains(n, "steering")}

PedalNodes == {n \in NodeNames : Contains(n, "pedal")}

\* C4 as stated: the completed LightGun scene has gun and gun2 and no node
\* whose name denotes a steering wheel or a pedal.
C4_NoSteeringNoPedal ==
    (Completed /\ variant = "LightGun") =>
        /\ HasNode("gun") /\ HasNode("gun2")
        /\ SteeringNodes = {}
        /\ PedalNodes = {}

\* C4, amended: the completed LightGun scene has gun and gun2, no steering
\* node and none of the driving cabinet's pedals; its one pedal node is the
\* foot pedal named pedal.
C4_OnlyFootPedal ==
    (Completed /\ variant = "LightGun") =>
        /\ HasNode("gun") /\ HasNode("gun2")
        /\ SteeringNodes = {}
        /\ PedalNodes = {"pedal"}

C4_Witness ==
    /\ Completed /\ variant = "LightGun"
    /\ PedalNodes # {}
    /\ HasNode("gun") /\ HasNode("gun2")

\* Where a box made by create_box stands: the location its transform_apply
\* moved into the vertex data
BoxLocation(o) == objects[o].mesh[1].baked[1].xf.location

\* C5: the completed Cocktail scene has exactly two joystick nodes, joystick
\* and joystick-2, and exactly four leg nodes, leg-1 .. leg-4, one at each
\* corner of the table.
C5_JoysticksAndLegs ==
    (Completed /\ variant = "Cocktail") =>
        /\ {n \in NodeNames : Contains(n, "joystick")} = {"joystick", "joystick-2"}
        /\ {n \in NodeNames : StartsWith(n, "leg")} = {"leg-1", "leg-2", "leg-3", "leg-4"}
        /\ LET legs == {o \in DOMAIN objects : StartsWith(objects[o].name, "leg")}
           IN /\ Cardinality(legs) = 4
              /\ {<<Sgn(BoxLocation(o)[1]), Sgn(BoxLocation(o)[2])>> : o \in legs}
                    = {<<1, 1>>, <<0 - 1, 1>>, <<1, 0 - 1>>, <<0 - 1, 0 - 1>>}
              /\ \A o, q \in legs :
                    /\ Abs(BoxLocation(o)[1]) = Abs(BoxLocation(q)[1])
                    /\ Abs(BoxLocation(o)[2]) = Abs(BoxLocation(q)[2])
                    /\ BoxLocation(o)[3] = BoxLocation(q)[3]

C5_Witness ==
    /\ pc = "done" /\ variant = "Cocktail"
    /\ \E o \in DOMAIN objects :
          objects[o].name = "leg-4" /\ BoxLocation(o) = <<0 - 3200, 0 - 2450, 3000>>
    /\ HasNode("joystick-2")

-----------------------------------------------------------------------------
(* Properties of the side panels (specification Spec).                     *)

\* The profile the running script extrudes into its side panels; the
\* cocktail table has none, its sides are boxes
PanelProfile ==
    CASE variant = "Upright" -> profile_2d_upright
      [] variant = "Driving" -> profile_2d_driving
      [] variant = "LightGun" -> profile_2d_lightgun
      [] OTHER -> <<>>

\* The side panels the running build function has made so far
SidePanels ==
    {o \in DOMAIN objects :
        /\ root # 0 /\ variant # "Cocktail"
        /\ objects[o].name \in {"left", "right"}}

\* C6: a side panel extruded from a profile of n points has a mesh of
\* exactly 2n vertices and n + 2 faces: the front n-gon on the front ring,
\* the back n-gon on the back ring, and n quads, the i-th on front[i],
\* front[i+1], back[i+1], back[i].
C6_ExtrusionCounts ==
    \A o \in SidePanels :
        LET n == Len(PanelProfile)
            m == objects[o].mesh[1]
        IN /\ Len(objects[o].mesh) = 1 /\ m.kind = "bmesh"
           /\ Len(m.verts) = 2 * n
           /\ Len(m.faces) = n + 2
           /\ Len(m.faces[1]) = n /\ Range(m.faces[1]) = 1..n
           /\ Len(m.faces[2]) = n /\ Range(m.faces[2]) = (n + 1)..(2 * n)
           /\ \A i \in 1..n :
                 LET j == (i % n) + 1
                 IN /\ Len(m.faces[i + 2]) = 4
                    /\ Range(m.faces[i + 2]) = {i, j, n + i, n + j}

C6_Witness ==
    /\ pc = "done" /\ variant = "Upright"
    /\ \E o \in SidePanels :
          /\ objects[o].name = "right"
          /\ Len(objects[o].mesh[1].verts) = 30
          /\ Len(objects[o].mesh[1].faces) = 17
          /\ objects[o].mesh[1].faces[17] = <<15, 1, 16, 30>>

\* The mean of a part's vertices
Centroid(verts) ==
    LET n == Len(verts)
    IN <<SumSeq([i \in 1..n |-> verts[i][1]]) \div n,
         SumSeq([i \in 1..n |-> verts[i][2]]) \div n,
         SumSeq([i \in 1..n |-> verts[i][3]]) \div n>>

\* The right-hand-rule normal of the quad p[1], p[2], p[3], p[4], divided
\* by the panel thickness (an exact division for a side quad, whose edge
\* from p[1] to p[4] runs across the panel)
QuadNormal(p) ==
    LET c == Cross(VSub(p[2], p[1]), VSub(p[4], p[1]))
    IN <<c[1] \div 200, c[2] \div 200, c[3] \div 200>>

\* Side quad i (from 0, as in the source) of the part m points away from
\* the centroid: its normal makes an acute angle with the line from the
\* centroid to the quad's centre
PointsAway(m, i) ==
    LET f == m.faces[i + 3]
        p == [k \in 1..4 |-> m.verts[f[k]]]
        centre == <<(p[1][1] + p[2][1] + p[3][1] + p[4][1]) \div 4,
                    (p[1][2] + p[2][2] + p[3][2] + p[4][2]) \div 4,
                    (p[1][3] + p[2][3] + p[3][3] + p[4][3]) \div 4>>
    IN Dot(QuadNormal(p), VSub(centre, Centroid(m.verts))) > 0

\* C7 as stated: on every side panel, left and right, the normal of every
\* side quad points away from the profile's centroid.
C7_SideNormalsOutward ==
    \A o \in SidePanels :
        \A i \in 0..(Len(PanelProfile) - 1) : PointsAway(objects[o].mesh[1], i)

\* What the code does: the first side quad of a right panel (the foot of
\* the front edge) faces the front, away from the centroid; the same quad of
\* a left panel faces the back, into the silhouette.
C7_FirstQuadBySide ==
    \A o \in SidePanels :
        PointsAway(objects[o].mesh[1], 0) <=> (objects[o].name = "right")

C7_Witness ==
    /\ pc = "done"
    /\ \E o \in SidePanels :
          /\ objects[o].name = "left"
          /\ QuadNormal([k \in 1..4 |->
                            objects[o].mesh[1].verts[objects[o].mesh[1].faces[3][k]]])[1] < 0

-----------------------------------------------------------------------------
(* Properties of a cutout-panel call (specification BezelSpec).            *)

\* The cutout is strictly smaller than the outer rectangle on both axes
StrictCutout(a) == a[3] < a[1] /\ a[4] < a[2]

\* The faces of the part m whose vertices all lie in the set V
FacesWithin(m, V) == {k \in 1..Len(m.faces) : Range(m.faces[k]) \subseteq V}

\* C8: a cutout-panel call with the cutout strictly inside the outer
\* rectangle returns a mesh of exactly 16 vertices and 16 quads: 4 on the
\* front ring, 4 on the back ring, 4 on the outer wall and 4 in the bore;
\* and the dimensions each of the four scripts builds its bezel with are
\* strict.
C8_CutoutPanel ==
    /\ (pc = "returned" /\ StrictCutout(bz_args.args)) =>
          LET m == objects[result.obj].mesh[1]
          IN /\ result.raised = ""
             /\ Len(m.verts) = 16
             /\ Len(m.faces) = 16
             /\ \A k \in 1..Len(m.faces) : Len(m.faces[k]) = 4
             /\ Cardinality(FacesWithin(m, 1..8)) = 4
             /\ Cardinality(FacesWithin(m, 9..16)) = 4
             /\ Cardinality(FacesWithin(m, (1..4) \cup (9..12))) = 4
             /\ Cardinality(FacesWithin(m, (5..8) \cup (13..16))) = 4
    /\ \A a \in {bezel_args_upright, bezel_args_cocktail, bezel_args_driving,
                  bezel_args_lightgun} : StrictCutout(a)
    /\ bezel_args_upright[1] = 4500 /\ bezel_args_upright[2] = 4000
    /\ bezel_args_upright[3] = 3500 /\ bezel_args_upright[4] = 2800

C8_Witness ==
    /\ pc = "returned" /\ bz_args.fn = "driving"
    /\ bz_args.args = bezel_args_driving
    /\ objects[result.obj].name = "bezel"
    /\ Len(objects[result.obj].mesh[1].faces) = 16

\* C9 as stated: a call whose cutout is not strictly smaller than the outer
\* rectangle on both axes fails with DegenerateCutout and leaves no bezel
\* mesh or node.
C9_DegenerateCutoutFails ==
    (pc = "returned" /\ ~StrictCutout(bz_args.args)) =>
        /\ result.raised = "DegenerateCutout"
        /\ DOMAIN objects = {}

\* What the code does with such a call: it returns a bezel node with all
\* 16 vertices and 16 faces.
C9_DegenerateCutoutBuilt ==
    (pc = "returned" /\ ~StrictCutout(bz_args.args)) =>
        /\ result.raised = ""
        /\ objects[result.obj].name = "bezel"
        /\ Len(objects[result.obj].mesh[1].verts) = 16
        /\ Len(objects[result.obj].mesh[1].faces) = 16

C9_Witness ==
    /\ pc = "returned" /\ bz_args.fn = "cocktail"
    /\ bz_args.args = <<2000, 2000, 3000, 2000, 100>>
    /\ DOMAIN objects # {}

-----------------------------------------------------------------------------
(* Properties of a sweep (specification SweepSpec).                        *)

\* The two waypoints are at least the threshold (0.001 m = 10 units) apart
AtLeastThreshold(p, q) == LengthSq(VSub(q, p)) >= 10 * 10

\* The consecutive pairs among the first n of the path that are at least
\* the threshold apart
PairsToBuild(n) == {i \in 1..n : AtLeastThreshold(sw_path[i], sw_path[i + 1])}

\* The segments the sweep has built so far: the cylinders of a tube
\* builder (parts of the joined object once it has returned), the boxes of
\* 8 vertices and 6 faces in the upright builder's mesh
SegmentsBuilt ==
    IF sw_kind = "strip" THEN Len(bm.faces) \div 6
    ELSE IF pc = "sweep" THEN Len(segments)
    ELSE IF result.obj = 0 THEN 0
    ELSE Len(objects[result.obj].mesh)

SweepDone == sw_i = Len(sw_path) - 1

\* C10: a sweep builds one segment for each consecutive pair of waypoints at
\* least the threshold apart, skips every other pair and never raises; over
\* a whole path of k waypoints that is k - 1 segments when every pair is at
\* least the threshold apart, and k - 2 when exactly one pair is a duplicate.
C10_SweepSegments ==
    sw_kind \in {"tube", "strip"} =>
        /\ SegmentsBuilt = Cardinality(PairsToBuild(sw_i))
        /\ result.raised = "" /\ ~bm.raised
        /\ sw_kind = "strip" =>
              Len(bm.faces) = 6 * SegmentsBuilt /\ Len(bm.verts) = 8 * SegmentsBuilt
        /\ (pc = "returned" /\ sw_kind = "tube") =>
              /\ Len(segments) = SegmentsBuilt
              /\ Cardinality(DOMAIN objects) = IF SegmentsBuilt = 0 THEN 0 ELSE 1
        /\ (SweepDone /\ PairsToBuild(sw_i) = 1..sw_i) =>
              SegmentsBuilt = Len(sw_path) - 1
        /\ (SweepDone /\ \E d \in 1..sw_i :
                            /\ sw_path[d] = sw_path[d + 1]
                            /\ PairsToBuild(sw_i) = (1..sw_i) \ {d}) =>
              SegmentsBuilt = Len(sw_path) - 2

C10_Witness ==
    /\ pc = "returned" /\ sw_kind = "tube"
    /\ sw_path = << <<0, 0, 0>>, <<0, 0, 0>>, <<10, 0, 0>>, <<0, 0, 3000>> >>
    /\ result.obj # 0
    /\ Len(objects[result.obj].mesh) = 2

-----------------------------------------------------------------------------
(* Orientation of a tube segment.                                          *)

\* The largest common divisor of a non-zero vector's components: the scripts
\* normalise the direction before using it, so a direction and its quotient
\* by a positive number give the same rotation.
CommonDivisor(d) ==
    LET m == Abs(d[1]) + Abs(d[2]) + Abs(d[3])
        D == {g \in 1..m : d[1] % g = 0 /\ d[2] % g = 0 /\ d[3] % g = 0}
    IN CHOOSE g \in D : \A h \in D : h <= g

Reduced(d) ==
    LET g == CommonDivisor(d)
    IN <<d[1] \div g, d[2] \div g, d[3] \div g>>

\* The image of the vector v under the rotation by acos(up . d/|d|) about
\* up x d (Rodrigues' formula), for a unit vector up, multiplied by the
\* positive number |d| * (|d| + up . d): the value is <<P, Q>> for the image
\* P + |d| * Q.
RotatedBy(up, d, v) ==
    LET c == Dot(up, d)
        a == Cross(up, d)
        av == Cross(a, v)
        k == Dot(a, v)
    IN << <<c * c * v[1] + c * av[1] + k * a[1],
            c * c * v[2] + c * av[2] + k * a[2],
            c * c * v[3] + c * av[3] + k * a[3]>>,
          <<c * v[1] + av[1], c * v[2] + av[2], c * v[3] + av[3]>> >>

\* P + |d| * Q is parallel to d.  |d| is an integer or irrational.
ImageParallel(pq, d) ==
    LET L == Length(d)
        cp == Cross(pq[1], d)
        cq == Cross(pq[2], d)
    IN IF L * L = LengthSq(d)
       THEN VAdd(cp, <<L * cq[1], L * cq[2], L * cq[3]>>) = Zero3
       ELSE cp = Zero3 /\ cq = Zero3

\* The long axis of a cylinder is its local z axis: the object's rotation
\* takes it to a vector parallel to the direction
LongAxisAlong(o, direction) ==
    LET d == Reduced(direction)
    IN IF objects[o].rotation.mode = "AXIS_ANGLE"
       THEN ImageParallel(RotatedBy(objects[o].rotation.up, d, <<0, 0, 1>>), d)
       ELSE Cross(<<0, 0, 1>>, d) = Zero3

\* The pass of a tube builder's loop that has just run built a segment
SegmentJustBuilt ==
    /\ pc = "sweep" /\ sw_kind = "tube" /\ sw_i >= 1
    /\ AtLeastThreshold(sw_path[sw_i], sw_path[sw_i + 1])

\* C11: every segment create_tube_segment builds has its long axis, after
\* the axis-angle rotation assigned to it, parallel to the segment's
\* direction, vertical segments included.
C11_LongAxisAlongSegment ==
    SegmentJustBuilt =>
        LongAxisAlong(segments[Len(segments)],
                      VSub(sw_path[sw_i + 1], sw_path[sw_i]))

\* Every segment whose direction is not within the 0.999 test of the
\* vertical is aligned with its direction
C11_InclinedSegmentsAligned ==
    (SegmentJustBuilt
       /\ ~nearly_vertical(VSub(sw_path[sw_i + 1], sw_path[sw_i]))) =>
        LongAxisAlong(segments[Len(segments)],
                      VSub(sw_path[sw_i + 1], sw_path[sw_i]))

\* The driving cabinet's first segment, straight up the left front edge,
\* has been built with the reference axis (1, 0, 0)
C11_Witness ==
    /\ SegmentJustBuilt /\ variant = "Driving" /\ sw_i = 1
    /\ objects[segments[1]].rotation.mode = "AXIS_ANGLE"
    /\ objects[segments[1]].rotation.up = <<1, 0, 0>>
    /\ objects[segments[1]].rotation.direction = <<0, 0, 12000>>

-----------------------------------------------------------------------------
(* A sweep that skips every pair.                                          *)

\* The sweep has returned and no pair of its path was at least the
\* threshold apart
AllSkipped ==
    /\ pc = "returned" /\ sw_kind \in {"tube", "strip"}
    /\ PairsToBuild(Len(sw_path) - 1) = {}

C12_TubeOmitsNode ==
    (AllSkipped /\ sw_kind = "tube") =>
        /\ DOMAIN objects = {}
        /\ result.obj = 0 /\ result.raised = ""

-----------------------------------------------------------------------------
(* The serializer call (specification FailSpec).                           *)

\* C13: export_glb is called at most once, and only once the build function
\* has gone through all its blocks without an exception; after a part
\* builder has failed the script is over and export_glb has not been and is
\* not called, so no partial scene reaches the serializer.
C13_ExportOnlyAfterBuild ==
    /\ Len(exported) <= 1
    /\ exported # <<>> =>
          /\ pc = "done"
          /\ step = Len(blocks_of(variant)) + 1
          /\ result.raised = ""
          /\ exported[1].filepath = output_path
    /\ pc = "export" => step = Len(blocks_of(variant)) + 1 /\ result.raised = ""
    /\ result.raised # "" => pc = "aborted" /\ exported = <<>>
    /\ pc = "aborted" => ~ENABLED (Next \/ BuildRaises)

\* A host call has raised in the middle of the build: a root and some parts
\* are in the scene, the T-molding is not
C13_Witness ==
    /\ pc = "aborted" /\ result.raised # ""
    /\ root # 0 /\ step > 3 /\ step < Len(blocks_of(variant))
    /\ ~HasNode("t-molding")
    /\ exported = <<>>

-----------------------------------------------------------------------------
(* Builds in sequence (specification SequenceSpec).                        *)

\* The name carries a suffix the host added to keep it apart from the name
\* of an object already there
Suffixed(name) == \E n \in 1..12 : Contains(name, NameSuffix(n))

\* C14: after any sequence of builds in one process the scene holds the
\* nodes of the most recent build only: every node was created after that
\* build emptied the scene (the root is the first object a build creates),
\* exactly one node is the cabinet-root, every other node hangs under it,
\* and every node has the name the build gave it.
C14_OnlyLatestBuild ==
    (Completed /\ builds >= 1) =>
        /\ root \in DOMAIN objects
        /\ \A o \in DOMAIN objects : o >= root /\ o < next_id
        /\ NodesNamed("cabinet-root") = {root}
        /\ \A o \in (DOMAIN objects) \ {root} :
              ChainEnd(o, Cardinality(DOMAIN objects)) = root
        /\ \A o \in DOMAIN objects : ~Suffixed(objects[o].name)
        /\ RequiredNames \subseteq NodeNames

\* A cocktail table has been built as the second build of the process,
\* after a driving cabinet's worth of objects or more
C14_Witness ==
    /\ pc = "export" /\ builds = 2 /\ variant = "Cocktail"
    /\ root > 20
    /\ HasNode("leg-4") /\ ~HasNode("seat")

-----------------------------------------------------------------------------
(* Interleaved builds (specification InterleavedSpec).                     *)

\* The nodes under the script's root
TreeOfRoot ==
    {o \in DOMAIN objects : ChainEnd(o, Cardinality(DOMAIN objects)) = root}

\* C15: two interleaved builds share no mutable state: when the script's
\* build finishes, every node it created is there under its own root
\* (every node in the scene that the second build did not create), and no
\* node the second build created is in its tree.
C15_BuildsIsolated ==
    (pc = "export" /\ other.pc # "idle") =>
        /\ root \in DOMAIN objects
        /\ (DOMAIN objects) \ other.made \subseteq TreeOfRoot
        /\ TreeOfRoot \cap other.made = {}

\* The script's build has finished and a node the second build created
\* hangs in its tree
C15_Witness ==
    /\ pc = "export" /\ other.pc = "paused"
    /\ root \in DOMAIN objects
    /\ TreeOfRoot \cap other.made # {}

-----------------------------------------------------------------------------
(* Transforms left on the nodes at export (specification Spec).            *)

\* The mesh-bearing nodes that carry a local transform not applied to
\* their vertex data
PendingTransforms ==
    {o \in DOMAIN objects : objects[o].mesh # <<>> /\ Xf(objects[o]) # IdentityXf}

\* C16: when export_glb is called, and after, no mesh-bearing node carries
\* a location, rotation or scale other than the identity: every transform
\* assigned during the build has been applied to the vertex data.
C16_TransformsBaked == Completed => PendingTransforms = {}

\* The upright is about to be exported with its bezel still carrying the
\* location and the tilt create_bezel_with_cutout assigned, and its left
\* panel the offset create_side_panel assigned
C16_Witness ==
    /\ pc = "export" /\ variant = "Upright"
    /\ \E o \in PendingTransforms :
          /\ objects[o].name = "bezel"
          /\ objects[o].location = <<0 - 700, 0, 13500>>
          /\ objects[o].rotation = Euler(Angle(0, 0), Angle(0, 0 - 250), Angle(0, 0))
    /\ \E o \in PendingTransforms :
          /\ objects[o].name = "left"
          /\ objects[o].location = <<0, 0 - 2500, 0>>

-----------------------------------------------------------------------------
(* The same variant built twice (specification SequenceSpec).              *)

\* C17: a variant built twice in a row gives the same result both times:
\* the same node names in the same creation order, and for each node the
\* same mesh data (vertex sequence and face sequence).
C17_SameBuildSameResult ==
    (Completed /\ previous.variant = variant) =>
        nodes_in_order(Scene(objects, active, next_id)) = previous.nodes

\* The driving cabinet has been built a second time, after a first build
\* that left its nodes with other ids
C17_Witness ==
    /\ pc = "export" /\ builds = 2
    /\ variant = "Driving" /\ previous.variant = "Driving"
    /\ Len(previous.nodes) > 20
    /\ \E i \in 1..Len(previous.nodes) :
          previous.nodes[i].name = "steering-wheel" /\ Len(previous.nodes[i].mesh) = 5
    /\ root > 20

-----------------------------------------------------------------------------
(* Two parts exchanged (specification ExchangedSpec).                      *)

\* C18: a build with two of its parts exchanged leaves the scene the build
\* as written leaves: every node with the same name, mesh, local transform
\* and parent.
C18_OrderIrrelevant ==
    (pc = "export" /\ builds = 2) =>
        Range(nodes_in_order(Scene(objects, active, next_id))) = Range(previous.nodes)

\* The driving cabinet built with its T-molding and its marquee box
\* exchanged: the bezel block's transform_apply found the T-molding selected
\* and applied its location and rotation
C18_Witness ==
    /\ pc = "export" /\ builds = 2 /\ variant = "Driving"
    /\ order = exchanged(create_driving_cabinet_blocks, 9, 22)
    /\ \E o \in DOMAIN objects :
          objects[o].name = "t-molding" /\ Xf(objects[o]) = IdentityXf
    /\ \E i \in 1..Len(previous.nodes) :
          previous.nodes[i].name = "t-molding" /\ previous.nodes[i].xf # IdentityXf

-----------------------------------------------------------------------------
(* Malformed profiles (specification ProfileSpec).                         *)

\* Two consecutive points of the profile, the last and the first included,
\* are the same point
RepeatedPoint(profile) ==
    \E i \in 1..Len(profile) : profile[i] = profile[(i % Len(profile)) + 1]

WellFormed(profile) == Len(profile) >= 3 /\ ~RepeatedPoint(profile)

ExtrusionReturned == pc = "returned" /\ bz_args # <<>> /\ bz_args.fn = "side_panel"

\* The profiles of the three side-panel builders are well formed
UsedProfilesWellFormed ==
    /\ WellFormed(profile_2d_upright)
    /\ WellFormed(profile_2d_driving)
    /\ WellFormed(profile_2d_lightgun)

C19_OnlyShortProfileFails ==
    /\ UsedProfilesWellFormed
    /\ ExtrusionReturned =>
          IF Len(bz_args.args) < 3
          THEN result.raised = "ValueError" /\ DOMAIN objects = {}
          ELSE /\ result.raised = "" /\ result.obj \in DOMAIN objects
               /\ Len(objects[result.obj].mesh[1].verts) = 2 * Len(bz_args.args)
               /\ Len(objects[result.obj].mesh[1].faces) = Len(bz_args.args) + 2

-----------------------------------------------------------------------------
(* Area of the front ring (specification BezelSpec).                       *)

\* Twice the area vector of the quad p (a sequence of 4 points): its length
\* is twice the quad's area, its direction the right-hand-rule normal
DoubleArea(p) ==
    VAdd(Cross(VSub(p[2], p[1]), VSub(p[3], p[1])),
         Cross(VSub(p[3], p[1]), VSub(p[4], p[1])))

\* The outward normal of the front plane: -y for the standing panels, +z
\* for the cocktail's lying one
FrontNormal(fn) == IF fn = "cocktail" THEN <<0, 0, 1>> ELSE <<0, 0 - 1, 0>>

\* Twice the signed areas of the quads of part m on the front ring (the
\* vertices v1..v8), in face order
FrontRingDoubleAreas(m, fn) ==
    LET ring == SortedIds(FacesWithin(m, 1..8))
    IN [i \in 1..Len(ring) |->
           Dot(DoubleArea([k \in 1..4 |-> m.verts[m.faces[ring[i]][k]]]),
               FrontNormal(fn))]

BezelReturned ==
    /\ pc = "returned" /\ bz_args # <<>>
    /\ bz_args.fn \in {"upright", "cocktail", "driving", "lightgun"}

\* C20: in every cutout panel the 4 quads of the front ring lie in the
\* front plane and their areas add up to the area of the outer rectangle
\* minus the area of the cutout rectangle; with the cutout strictly inside,
\* each of the four has a positive area on the same side, so they tile the
\* frame without overlap or gap.
C20_FrontRingArea ==
    BezelReturned =>
        LET m == objects[result.obj].mesh[1]
            a == bz_args.args
            areas == FrontRingDoubleAreas(m, bz_args.fn)
        IN /\ Len(areas) = 4
           /\ SumSeq(areas) = 2 * (a[1] * a[2] - a[3] * a[4])
           /\ \A k \in FacesWithin(m, 1..8) :
                 Cross(DoubleArea([i \in 1..4 |-> m.verts[m.faces[k][i]]]),
                       FrontNormal(bz_args.fn)) = Zero3
           /\ StrictCutout(a) => \A i \in 1..4 : areas[i] > 0

\* The light-gun bezel as its build function calls it: 0.75 x 0.55 with a
\* 0.60 x 0.42 cutout, a frame of 0.1605 m2
C20_Witness ==
    /\ BezelReturned /\ bz_args.fn = "lightgun"
    /\ bz_args.args = bezel_args_lightgun
    /\ SumSeq(FrontRingDoubleAreas(objects[result.obj].mesh[1], "lightgun"))
          = 2 * 16050000


-----------------------------------------------------------------------------
(* The output path (specification Spec).                                   *)

\* The script's positional arguments as the host defines them: what follows
\* the first "--" of the command line
Positional(argv) ==
    IF \E i \in 1..Len(argv) : argv[i] = "--"
    THEN LET first == CHOOSE i \in 1..Len(argv) :
                          argv[i] = "--" /\ \A j \in 1..Len(argv) : argv[j] = "--" => i <= j
         IN  [k \in 1..(Len(argv) - first) |-> argv[first + k]]
    ELSE <<>>

\* C21: each variant's main exports to the path given as its first
\* positional argument whenever one is given, and to the variant's fixed
\* default path when none is given.
C21_OutputPath ==
    \A e \in 1..Len(exported) :
        exported[e].filepath =
            IF Positional(sys_argv) # <<>>
            THEN Positional(sys_argv)[1]
            ELSE CASE variant = "Upright" -> "/tmp/arcade_cabinet_template.glb"
                   [] variant = "Cocktail" -> "/tmp/cocktail_cabinet_template.glb"
                   [] variant = "Driving" -> "/tmp/driving_cabinet_template.glb"
                   [] variant = "LightGun" -> "/tmp/lightgun_cabinet_template.glb"

\* The light-gun script has exported to the path given before a further
\* argument
C21_Witness ==
    /\ variant = "LightGun"
    /\ Len(Positional(sys_argv)) = 2
    /\ pc = "done"
    /\ Len(exported) = 1 /\ exported[1].filepath = "cab.glb"


-----------------------------------------------------------------------------
(* The winding of an extrusion (specification Spec).                       *)

\* The vertices of the part m in the order the face f lists them
Corners(m, f) == [k \in 1..Len(f) |-> m.verts[f[k]]]

\* The two rings of a side panel's mesh as the builder makes them: the
\* front ring is the profile at one y, made first, the back ring the
\* profile at another y, made second
FrontRing(m, n) == [i \in 1..n |-> m.verts[i]]

BackRing(m, n) == [i \in 1..n |-> m.verts[n + i]]

\* The ring follows the profile, point by point, in the plane y = y0
RingOf(ring, profile, y0) ==
    /\ Len(ring) = Len(profile)
    /\ \A i \in 1..Len(profile) : ring[i] = <<profile[i][1], y0, profile[i][2]>>

\* C22: in every profile extrusion the first face is the front ring in the
\* profile's listed order, the second face is the back ring in reversed
\* order, and for every i in 0..n-1 there is one side quad front[i],
\* front[(i+1) mod n], back[(i+1) mod n], back[i], the last one closing the
\* loop from the last profile point to the first.
C22_Winding ==
    \A o \in SidePanels :
        LET n == Len(PanelProfile)
            m == objects[o].mesh[1]
            front == FrontRing(m, n)
            back == BackRing(m, n)
        IN /\ Len(m.verts) = 2 * n
           /\ \E yf, yb \in {m.verts[1][2], m.verts[n + 1][2]} :
                 /\ yf # yb
                 /\ RingOf(front, PanelProfile, yf)
                 /\ RingOf(back, PanelProfile, yb)
           /\ Len(m.faces) = n + 2
           /\ Corners(m, m.faces[1]) = front
           /\ Corners(m, m.faces[2]) = Reverse(back)
           /\ m.faces[1] = [i \in 1..n |-> i]
           /\ m.faces[2] = [i \in 1..n |-> n + (n + 1 - i)]
           /\ \A i \in 0..(n - 1) :
                 LET j == (i + 1) % n
                 IN /\ m.faces[i + 3] = <<i + 1, j + 1, n + j + 1, n + i + 1>>
                    /\ Corners(m, m.faces[i + 3]) =
                          <<front[i + 1], front[j + 1], back[j + 1], back[i + 1]>>

\* A finished driving cabinet: its right panel's back face runs from the
\* last back vertex to the first, and its last side quad closes the loop
C22_Witness ==
    /\ pc = "done" /\ variant = "Driving"
    /\ \E o \in SidePanels :
          /\ objects[o].name = "right"
          /\ objects[o].mesh[1].faces[2][1] = 26
          /\ objects[o].mesh[1].faces[2][13] = 14
          /\ objects[o].mesh[1].faces[15] = <<13, 1, 14, 26>>


-----------------------------------------------------------------------------
(* The two rings of an extrusion (specification Spec).                     *)

\* The panel thickness, 0.02 in the three builders
PanelThickness == 200

\* The rings of the side panel o sit at +thickness/2 and -thickness/2 on
\* the y axis of its mesh, the front ring on the positive side for a right
\* panel and on the negative side for a left panel
RingsSymmetric(o) ==
    LET n == Len(PanelProfile)
        m == objects[o].mesh[1]
        half == PanelThickness \div 2
        sign == IF objects[o].name = "right" THEN 1 ELSE 0 - 1
    IN /\ \A i \in 1..n : m.verts[i][2] = sign * half
       /\ \A i \in 1..n : m.verts[n + i][2] = 0 - (sign * half)

\* C23: in every profile extrusion the two rings sit at +thickness/2 and
\* -thickness/2 on the panel's normal axis, symmetric about the mesh's
\* local origin, the side flag only exchanging the signs; for the upright,
\* the driving and the light-gun side panels alike.
C23_RingsSymmetric == \A o \in SidePanels : RingsSymmetric(o)

\* What holds of the three builders: the rings are one thickness apart,
\* and those of the upright and the light-gun panels are symmetric about
\* the mesh's origin
C23_RingsOneThicknessApart ==
    \A o \in SidePanels :
        LET n == Len(PanelProfile)
            m == objects[o].mesh[1]
        IN /\ \A i \in 1..n :
                 Abs(m.verts[i][2] - m.verts[n + i][2]) = PanelThickness
           /\ variant \in {"Upright", "LightGun"} => RingsSymmetric(o)

\* The right panel of a finished driving cabinet: front ring at y = 0.50,
\* back ring at y = 0.48, the object at the origin
C23_Witness ==
    /\ pc = "done" /\ variant = "Driving"
    /\ \E o \in SidePanels :
          /\ objects[o].name = "right"
          /\ objects[o].mesh[1].verts[1][2] = 5000
          /\ objects[o].mesh[1].verts[14][2] = 4800
          /\ objects[o].location = Zero3


-----------------------------------------------------------------------------
(* The merged T-molding mesh (specification SweepSpec).                    *)

\* The pairs of the whole path that are built, and the i-th of them
BuiltPairs == PairsToBuild(Len(sw_path) - 1)

BuiltPair(i) == CHOOSE d \in BuiltPairs : Cardinality({e \in BuiltPairs : e < d}) = i - 1

\* Vertices and faces of a part: those written through bmesh, or those of
\* the host's cylinder (32 vertices a ring, 32 side quads and two caps)
PartVertexCount(part) ==
    CASE part.kind = "bmesh" -> Len(part.verts)
      [] part.kind = "cylinder" -> 64
      [] OTHER -> 0

PartFaceCount(part) ==
    CASE part.kind = "bmesh" -> Len(part.faces)
      [] part.kind = "cylinder" -> 34
      [] OTHER -> 0

\* Strip s of the bmesh part m: its 8 vertices and its 6 faces
StripVertices(s) == (8 * (s - 1) + 1)..(8 * s)

StripFaces(s) == (6 * (s - 1) + 1)..(6 * s)

\* The sum of the four vertices v(0)..v(3) of a strip's cap, made around a
\* waypoint as point -/+ perp1 -/+ perp2
CapSum(m, first) ==
    VAdd(VAdd(m.verts[first], m.verts[first + 1]),
         VAdd(m.verts[first + 2], m.verts[first + 3]))

Times4(p) == <<4 * p[1], 4 * p[2], 4 * p[3]>>

\* C24: the merged T-molding mesh is the plain concatenation of its
\* segments.  Its vertex count is the sum of the segments' vertex counts
\* and its face count the sum of their face counts; each segment's faces
\* index only that segment's own vertices; no vertex belongs to two
\* segments, even where consecutive segments meet at a waypoint.  The
\* upright's strips have 8 vertices and 6 faces each.
C24_MergeIsConcatenation ==
    (pc = "returned" /\ result.obj # 0) =>
        LET mesh == objects[result.obj].mesh
            k == Cardinality(BuiltPairs)
        IN IF sw_kind = "strip"
           THEN LET m == mesh[1]
                IN /\ Len(mesh) = 1
                   /\ PartVertexCount(m) = 8 * k
                   /\ PartFaceCount(m) = 6 * k
                   /\ \A s \in 1..k :
                         /\ \A f \in StripFaces(s) : Range(m.faces[f]) \subseteq StripVertices(s)
                         /\ StripVertices(s) =
                               UNION {Range(m.faces[f]) : f \in StripFaces(s)}
                         /\ CapSum(m, 8 * (s - 1) + 1) = Times4(sw_path[BuiltPair(s)])
                         /\ CapSum(m, 8 * (s - 1) + 5) = Times4(sw_path[BuiltPair(s) + 1])
                   /\ \A f \in 1..Len(m.faces) :
                         Cardinality({s \in 1..k : Range(m.faces[f]) \cap StripVertices(s) # {}}) = 1
           ELSE /\ Len(mesh) = k
                /\ SumSeq([i \in 1..k |-> PartVertexCount(mesh[i])]) = 64 * k
                /\ SumSeq([i \in 1..k |-> PartFaceCount(mesh[i])]) = 34 * k
                /\ \A i \in 1..k :
                      /\ mesh[i].kind = "cylinder"
                      /\ mesh[i].params.depth =
                            Length(VSub(sw_path[BuiltPair(i) + 1], sw_path[BuiltPair(i)]))

\* Three strips up, down and sideways through shared waypoints: 24 vertices
\* and 18 faces, and the end cap of the first strip and the start cap of the
\* second are two sets of four vertices at the same four positions
C24_Witness ==
    /\ pc = "returned" /\ sw_kind = "strip"
    /\ sw_path = << <<0, 0, 0>>, <<0, 0, 3000>>, <<0, 0, 0>>, <<10, 0, 0>> >>
    /\ result.obj # 0
    /\ LET m == objects[result.obj].mesh[1]
       IN /\ Len(m.verts) = 24 /\ Len(m.faces) = 18
          /\ \A c \in 0..3 : m.verts[5 + c] = m.verts[9 + c]
          /\ Range(m.faces[7]) = 9..12


-----------------------------------------------------------------------------
(* The cross-section axes of a segment (specification SweepSpec).          *)

\* P + |d| * Q is perpendicular to d.  |d| is an integer or irrational.
ImagePerpendicular(pq, d) ==
    LET L == Length(d)
    IN IF L * L = LengthSq(d)
       THEN Dot(pq[1], d) + L * Dot(pq[2], d) = 0
       ELSE Dot(pq[1], d) = 0 /\ Dot(pq[2], d) = 0

\* The cross-section of a cylinder lies in its local x and y axes: the
\* object's rotation takes both to vectors perpendicular to the direction
\* (being a rotation, it keeps them perpendicular to each other)
TubeSectionPerpendicular(o, direction) ==
    LET d == Reduced(direction)
    IN IF objects[o].rotation.mode = "AXIS_ANGLE"
       THEN /\ ImagePerpendicular(RotatedBy(objects[o].rotation.up, d, <<1, 0, 0>>), d)
            /\ ImagePerpendicular(RotatedBy(objects[o].rotation.up, d, <<0, 1, 0>>), d)
       ELSE Dot(<<1, 0, 0>>, d) = 0 /\ Dot(<<0, 1, 0>>, d) = 0

\* The add_strip call that has just run added a strip
StripJustAdded ==
    /\ pc = "sweep" /\ sw_kind = "strip" /\ sw_i >= 1
    /\ AtLeastThreshold(sw_path[sw_i], sw_path[sw_i + 1])

\* Twice perp1 and twice perp2 of the last strip, read off its start cap:
\* v[1] - v[0] and v[3] - v[0]
LastStripAxes ==
    LET o == Len(bm.verts) - 8
    IN <<VSub(bm.verts[o + 2], bm.verts[o + 1]), VSub(bm.verts[o + 4], bm.verts[o + 1])>>

StripSectionPerpendicular(direction) ==
    /\ Dot(LastStripAxes[1], direction) = 0
    /\ Dot(LastStripAxes[2], direction) = 0
    /\ Dot(LastStripAxes[1], LastStripAxes[2]) = 0

\* The direction lies along one coordinate axis
AxisAligned(d) == Cardinality({c \in 1..3 : d[c] # 0}) = 1

\* C25: for every segment of a sweep that is not skipped, whatever its
\* direction, the two cross-section axes chosen for it are perpendicular to
\* the segment's direction and to each other; for the upright's add_strip
\* in every branch of its three-way test, not only for axis-aligned
\* segments.
C25_SectionPerpendicular ==
    /\ StripJustAdded => StripSectionPerpendicular(VSub(sw_path[sw_i + 1], sw_path[sw_i]))
    /\ SegmentJustBuilt =>
          TubeSectionPerpendicular(segments[Len(segments)],
                                   VSub(sw_path[sw_i + 1], sw_path[sw_i]))

\* What holds: the axes of a strip are perpendicular to each other always
\* and to the direction when it lies along a coordinate axis; those of a
\* tube segment are perpendicular to the direction when it is not within
\* the 0.999 test of the vertical
C25_PerpendicularWhenAlignedOrInclined ==
    /\ StripJustAdded =>
          /\ Dot(LastStripAxes[1], LastStripAxes[2]) = 0
          /\ AxisAligned(VSub(sw_path[sw_i + 1], sw_path[sw_i])) =>
                StripSectionPerpendicular(VSub(sw_path[sw_i + 1], sw_path[sw_i]))
    /\ (SegmentJustBuilt /\ ~nearly_vertical(VSub(sw_path[sw_i + 1], sw_path[sw_i]))) =>
          TubeSectionPerpendicular(segments[Len(segments)],
                                   VSub(sw_path[sw_i + 1], sw_path[sw_i]))

\* A strip from (0.001, 0, 0) to (0, 0, 0.3), steep but not vertical, has
\* been added through the |z| > 0.9 branch with perp1 along x
C25_Witness ==
    /\ StripJustAdded
    /\ sw_path[sw_i] = <<10, 0, 0>> /\ sw_path[sw_i + 1] = <<0, 0, 3000>>
    /\ LastStripAxes = << <<120, 0, 0>>, <<0, 80, 0>> >>


-----------------------------------------------------------------------------
(* Orientation of an extruded slab (specification Spec).                   *)

\* The edges of the face f, each as the pair <<from, to>> in the order the
\* face goes round
DirectedEdges(f) == {<<f[i], f[(i % Len(f)) + 1]>> : i \in 1..Len(f)}

OppositeEdges(f) == {<<e[2], e[1]>> : e \in DirectedEdges(f)}

\* The faces f and g share an edge
ShareEdge(f, g) == DirectedEdges(f) \cap (DirectedEdges(g) \cup OppositeEdges(g)) # {}

\* Every edge f and g share is traversed one way by f and the other way by g
ConsistentlyOriented(f, g) == DirectedEdges(f) \cap DirectedEdges(g) = {}

\* Every edge f and g share is traversed the same way by both
SameWayRound(f, g) == DirectedEdges(f) \cap OppositeEdges(g) = {}

\* The caps (front and back n-gon) and the side quads of a side panel's mesh
CapFaces == {1, 2}

SideQuads(m) == 3..Len(m.faces)

\* C26: every extruded slab is consistently oriented: each edge shared by a
\* cap n-gon (front or back ring) and a side quad is traversed in opposite
\* directions by those two faces.
C26_CapsAgreeWithWall ==
    \A o \in SidePanels :
        LET m == objects[o].mesh[1]
        IN \A c \in CapFaces : \A q \in SideQuads(m) :
              ConsistentlyOriented(m.faces[c], m.faces[q])

\* What the builders emit: every side quad shares one edge with each cap
\* and goes along it the same way as the cap does; the two caps face
\* opposite ways, and neighbouring side quads agree with each other
C26_WallAgainstCaps ==
    \A o \in SidePanels :
        LET m == objects[o].mesh[1]
        IN /\ \A c \in CapFaces : \A q \in SideQuads(m) :
                 /\ ShareEdge(m.faces[c], m.faces[q])
                 /\ SameWayRound(m.faces[c], m.faces[q])
           /\ \A q, r \in SideQuads(m) :
                 q # r => ConsistentlyOriented(m.faces[q], m.faces[r])
           /\ OppositeEdges(m.faces[2]) =
                 {<<e[1] + Len(PanelProfile), e[2] + Len(PanelProfile)>> :
                     e \in DirectedEdges(m.faces[1])}

\* The upright's left panel: the front cap and the first side quad both go
\* from the first front vertex to the second
C26_Witness ==
    /\ pc = "done" /\ variant = "Upright"
    /\ \E o \in SidePanels :
          /\ objects[o].name = "left"
          /\ <<1, 2>> \in DirectedEdges(objects[o].mesh[1].faces[1])
          /\ objects[o].mesh[1].faces[3] = <<1, 2, 17, 16>>


-----------------------------------------------------------------------------
(* Orientation of a cutout panel (specification BezelSpec).                *)

\* The signs of the components of the right-hand-rule normal of face k of
\* the part m
NormalSigns(m, k) ==
    LET n == DoubleArea(Corners(m, m.faces[k]))
    IN <<Sgn(n[1]), Sgn(n[2]), Sgn(n[3])>>

\* Four times the vector from the panel's centre (the mesh's origin, about
\* which the 16 vertices are symmetric) to the centre of face k
FaceCentre4(m, k) ==
    LET p == Corners(m, m.faces[k])
    IN VAdd(VAdd(p[1], p[2]), VAdd(p[3], p[4]))

\* From the back plane to the front plane: from v1b to v1
BackToFront(m) == VSub(m.verts[1], m.verts[9])

\* C27: every cutout panel is consistently oriented, with all 16 normals
\* pointing out of the frame material: the 4 front quads face away from the
\* back plane, the 4 back quads the opposite way, the 4 outer-wall quads
\* away from the panel's centre and the 4 bore quads toward it; and every
\* edge shared by two of the faces is traversed in opposite directions by
\* them.
C27_CutoutPanelOriented ==
    (BezelReturned /\ StrictCutout(bz_args.args)) =>
        LET m == objects[result.obj].mesh[1]
        IN /\ Len(m.faces) = 16
           /\ VAdd(m.verts[1], m.verts[11]) = Zero3
           /\ \A k \in 1..4 :
                 /\ Range(m.faces[k]) \subseteq 1..8
                 /\ Dot(NormalSigns(m, k), BackToFront(m)) > 0
                 /\ Cross(NormalSigns(m, k), BackToFront(m)) = Zero3
           /\ \A k \in 5..8 :
                 /\ Range(m.faces[k]) \subseteq 9..16
                 /\ Dot(NormalSigns(m, k), BackToFront(m)) < 0
                 /\ Cross(NormalSigns(m, k), BackToFront(m)) = Zero3
           /\ \A k \in 9..12 :
                 /\ Range(m.faces[k]) \subseteq (1..4) \cup (9..12)
                 /\ Dot(NormalSigns(m, k), FaceCentre4(m, k)) > 0
                 /\ Dot(NormalSigns(m, k), BackToFront(m)) = 0
           /\ \A k \in 13..16 :
                 /\ Range(m.faces[k]) \subseteq (5..8) \cup (13..16)
                 /\ Dot(NormalSigns(m, k), FaceCentre4(m, k)) < 0
                 /\ Dot(NormalSigns(m, k), BackToFront(m)) = 0
           /\ \A j, k \in 1..16 :
                 j # k => ConsistentlyOriented(m.faces[j], m.faces[k])
           /\ \A k \in 1..16 :
                 \A e \in DirectedEdges(m.faces[k]) :
                     Cardinality({j \in 1..16 : e \in OppositeEdges(m.faces[j])}) = 1

\* The cocktail's bezel as its build function calls it, lying in the x-y
\* plane: the top quads face up, the first outer wall faces -y, the first
\* bore quad faces +y, into the opening
C27_Witness ==
    /\ BezelReturned /\ bz_args.fn = "cocktail"
    /\ bz_args.args = bezel_args_cocktail
    /\ NormalSigns(objects[result.obj].mesh[1], 1) = <<0, 0, 1>>
    /\ NormalSigns(objects[result.obj].mesh[1], 9) = <<0, 0 - 1, 0>>
    /\ NormalSigns(objects[result.obj].mesh[1], 13) = <<0, 1, 0>>


-----------------------------------------------------------------------------
(* What the apply-transform operation acts on (specification Spec).        *)

\* The blocks of a build function in which a rotation or a scale is
\* assigned to a part and transform_apply is then called: every block but
\* the root, the side panels, the T-molding, the upright's cp-shell, the
\* driving cabinet's seat, and the bezel of the upright and the cocktail
\* scripts
AppliesTransform(v, block) ==
    /\ block \notin {"root", "left", "right", "t-molding", "cp-shell", "seat"}
    /\ ~(block = "bezel" /\ v \in {"Upright", "Cocktail"})

\* The build function is about to run a block that applies a transform
ApplyingBlock ==
    /\ pc = "build" /\ step \in 1..Len(order)
    /\ AppliesTransform(variant, order[step])

\* The nodes the step has added
Added == (DOMAIN objects') \ (DOMAIN objects)

\* Every node that was there before the step is as it was, but for its
\* selection flag
OthersUntouched ==
    \A o \in DOMAIN objects :
        /\ o \in DOMAIN objects'
        /\ [objects'[o] EXCEPT !.selected = FALSE] = [objects[o] EXCEPT !.selected = FALSE]

\* The step leaves one of its own parts active and selected, and none of
\* its parts with a rotation or a scale still to be applied
ActsOnOwnPart ==
    /\ active' \in Added
    /\ objects'[active'].selected
    /\ \A o \in Added :
          objects'[o].rotation = NoRotation /\ objects'[o].scale = One3

\* C28: whenever a builder assigns a rotation or a scale to a part and then
\* calls the host's apply-transform operation, the active and selected
\* object is that part, so the operation bakes that part's transform and
\* touches no other node; for the parts made by the primitive-add operators
\* and for the parts linked directly (the driving and light-gun bezels).
C28_ApplyActsOnThePart ==
    [][ApplyingBlock => (ActsOnOwnPart /\ OthersUntouched)]_vars

\* What holds: it is so for every block but the bezel's of the driving and
\* light-gun scripts, and no block changes a node made before it
C28_ApplyActsOnAddedParts ==
    [][ApplyingBlock =>
          /\ OthersUntouched
          /\ ~(order[step] = "bezel" /\ variant \in {"Driving", "LightGun"}) => ActsOnOwnPart
      ]_vars

\* The driving cabinet after its bezel block: the marquee box is still the
\* active, selected object, the bezel is not selected and carries the tilt
\* it was given
C28_Witness ==
    /\ pc = "build" /\ variant = "Driving"
    /\ step > 1 /\ order[step - 1] = "bezel"
    /\ active \in DOMAIN objects
    /\ objects[active].name = "marquee-box" /\ objects[active].selected
    /\ \E o \in DOMAIN objects :
          /\ objects[o].name = "bezel"
          /\ ~objects[o].selected
          /\ objects[o].rotation = Euler(Angle(0, 0), Angle(0, 0 - 250), Angle(0, 0))
          /\ objects[o].mesh[1].baked = <<>>


-----------------------------------------------------------------------------
(* The two screen mocks (specification Spec).                              *)

\* Where the mock o was created: the location given to the cube operator,
\* which the block's transform_apply has moved from the object into the
\* vertex data
MockLocation(o) ==
    LET m == objects[o].mesh[1]
    IN IF m.baked = <<>> THEN objects[o].location
       ELSE VAdd(objects[o].location, m.baked[1].xf.location)

\* The extents of the mock o along x, y and z: the cube's size times the
\* scale it was given (in units of 10^-8 m)
MockExtents(o) ==
    LET m == objects[o].mesh[1]
        scale == IF m.baked = <<>> THEN objects[o].scale ELSE m.baked[1].xf.scale
    IN <<m.params.size * scale[1], m.params.size * scale[2], m.params.size * scale[3]>>

\* The thickness axis of a pair of extents: the axis of the smallest extent
ThinAxis(e) == CHOOSE c \in 1..3 : \A d \in 1..3 : e[c] <= e[d]

\* The two in-plane axes, the horizontal one first: y and z for a standing
\* screen (thin along x), x and y for a lying one (thin along z)
InPlane(e) ==
    LET t == ThinAxis(e)
        rest == (1..3) \ {t}
        lo == CHOOSE c \in rest : \A d \in rest : c <= d
        hi == CHOOSE c \in rest : \A d \in rest : c >= d
    IN <<lo, hi>>

\* C29: in every variant screen-mock-horizontal and screen-mock-vertical
\* are created at the same location, the horizontal mock is wider than tall
\* in its plane, and the vertical mock has exactly those two extents
\* exchanged, with the same thickness on the same axis.
C29_ScreenMocks ==
    Completed =>
        /\ Cardinality(NodesNamed("screen-mock-horizontal")) = 1
        /\ Cardinality(NodesNamed("screen-mock-vertical")) = 1
        /\ \A h \in NodesNamed("screen-mock-horizontal") :
              \A v \in NodesNamed("screen-mock-vertical") :
                  LET eh == MockExtents(h)
                      ev == MockExtents(v)
                      w == InPlane(eh)[1]
                      t == InPlane(eh)[2]
                  IN /\ objects[h].mesh[1].kind = "cube" /\ objects[v].mesh[1].kind = "cube"
                     /\ MockLocation(h) = MockLocation(v)
                     /\ Xf(objects[h]) = IdentityXf /\ Xf(objects[v]) = IdentityXf
                     /\ ThinAxis(ev) = ThinAxis(eh)
                     /\ ev[ThinAxis(ev)] = eh[ThinAxis(eh)]
                     /\ eh[ThinAxis(eh)] < eh[t]
                     /\ eh[w] > eh[t]
                     /\ ev[w] = eh[t] /\ ev[t] = eh[w]

\* A finished cocktail table: both mocks lie at (0, 0, 0.69), the
\* horizontal one 0.42 by 0.32 times the cube's size, the vertical one 0.32
\* by 0.42
C29_Witness ==
    /\ Completed /\ variant = "Cocktail"
    /\ \E h \in NodesNamed("screen-mock-horizontal") :
          \E v \in NodesNamed("screen-mock-vertical") :
              /\ MockLocation(h) = <<0, 0, 6900>> /\ MockLocation(v) = <<0, 0, 6900>>
              /\ MockExtents(h) = <<420000, 320000, 10000>>
              /\ MockExtents(v) = <<320000, 420000, 10000>>

=============================================================================
